---------------------------- MODULE Spec2Model ----------------------------
(***************************************************************************)
(* The change-notification core of maasserver (src/maasserver/triggers.py).*)
(*                                                                         *)
(* register_all_triggers installs PL/pgSQL procedures and row-level AFTER  *)
(* triggers.  A mutation of a tracked table fires the triggers bound to    *)
(* (table, event); each runs its procedure, which calls pg_notify.  The    *)
(* model keeps the registry (procedures, triggers), the tracked tables,    *)
(* and, for the last mutation, the row images, the triggers that fired and *)
(* the notifications they emitted.                                         *)
(***************************************************************************)
EXTENDS Integers, Sequences, FiniteSets, TLC

(***************************************************************************)
(* Bounds of the model.                                                    *)
(***************************************************************************)
MaxNodes == 2          \* rows of maasserver_node
MaxBlockDevices == 1   \* rows of maasserver_blockdevice
MaxRows == 1           \* rows of every other table
MaxSessions == 2       \* database sessions with a transaction block
MaxTx == 2             \* transaction blocks begun
MaxStmts == 2          \* statements of one transaction block
MaxRegCalls == 2       \* calls of register_all_triggers
MaxRelatedRows == 2    \* rows of the node-related tables taken together
MaxNodeGroups == 2     \* rows of maasserver_nodegroup

(***************************************************************************)
(* SQL values.  Ids are positive integers; NULL in an id column is 0, which *)
(* equals no id.  A column reference of the SQL text, such as NEW.node_id,  *)
(* is the pair <<"NEW", "node_id">>.                                        *)
(***************************************************************************)
NULL == 0
NoArg == <<>>
NoRow == <<>>

(***************************************************************************)
(* Procedure texts.  A rendered procedure is its function name, the        *)
(* template (the PL/pgSQL body) and the values substituted for the %s of   *)
(* the template.                                                           *)
(***************************************************************************)
Rendered(proc_name, body, channel, arg1, arg2) ==
    [name |-> proc_name, body |-> body, channel |-> channel,
     arg1 |-> arg1, arg2 |-> arg2]

NODE_TAG_NOTIFY(proc_name, node_id) ==
    Rendered(proc_name, "NODE_TAG_NOTIFY", "", node_id, NoArg)

TAG_NODES_NOTIFY ==
    Rendered("tag_update_node_device_notify", "TAG_NODES_NOTIFY", "",
             <<"NEW", "id">>, NoArg)

\* Mutant: WHERE id = NEW.id.
EVENT_NODE_NOTIFY_ById ==
    Rendered("event_create_node_device_notify", "EVENT_NODE_NOTIFY", "",
             <<"NEW", "id">>, NoArg)

EVENT_NODE_NOTIFY ==
    Rendered("event_create_node_device_notify", "EVENT_NODE_NOTIFY", "",
             <<"NEW", "node_id">>, NoArg)

NODEGROUP_INTERFACE_NODEGROUP_NOTIFY(proc_name, nodegroup_id) ==
    Rendered(proc_name, "NODEGROUP_INTERFACE_NODEGROUP_NOTIFY",
             "nodegroup_update", nodegroup_id, NoArg)

MACSTATICIPADDRESSLINK_NODE_NOTIFY(proc_name, mac_address_id) ==
    Rendered(proc_name, "MACSTATICIPADDRESSLINK_NODE_NOTIFY", "",
             mac_address_id, NoArg)

DHCPLEASE_NODE_NOTIFY(proc_name, mac) ==
    Rendered(proc_name, "DHCPLEASE_NODE_NOTIFY", "", mac, NoArg)

MACADDRESS_UPDATE_NODE_NOTIFY ==
    Rendered("nd_macaddress_update_notify", "MACADDRESS_UPDATE_NODE_NOTIFY",
             "", <<"OLD", "node_id">>, <<"NEW", "node_id">>)

PHYSICAL_OR_VIRTUAL_BLOCK_DEVICE_NODE_NOTIFY(proc_name, blockdevice_id) ==
    Rendered(proc_name, "PHYSICAL_OR_VIRTUAL_BLOCK_DEVICE_NODE_NOTIFY", "",
             blockdevice_id, NoArg)

PARTITIONTABLE_NODE_NOTIFY(proc_name, block_device_id) ==
    Rendered(proc_name, "PARTITIONTABLE_NODE_NOTIFY", "", block_device_id,
             NoArg)

PARTITION_NODE_NOTIFY(proc_name, partition_table_id) ==
    Rendered(proc_name, "PARTITION_NODE_NOTIFY", "", partition_table_id,
             NoArg)

FILESYSTEM_NODE_NOTIFY(proc_name, block_device_id, partition_id) ==
    Rendered(proc_name, "FILESYSTEM_NODE_NOTIFY", "", block_device_id,
             partition_id)

FILESYSTEMGROUP_NODE_NOTIFY(proc_name, filesystem_group_id, cache_set_id) ==
    Rendered(proc_name, "FILESYSTEMGROUP_NODE_NOTIFY", "",
             filesystem_group_id, cache_set_id)

CACHESET_NODE_NOTIFY(proc_name, cache_set_id) ==
    Rendered(proc_name, "CACHESET_NODE_NOTIFY", "", cache_set_id, NoArg)

\* Mutant: the function name is substituted for the channel as well.
render_notification_procedure_NameTwice(proc_name, event_name, cast) ==
    Rendered(proc_name, "notification", proc_name, cast, NoArg)

\* Mutant: the payload is the row's numeric id, whatever the cast.
render_notification_procedure_CastId(proc_name, event_name, cast) ==
    Rendered(proc_name, "notification", event_name, <<cast[1], "id">>, NoArg)

render_notification_procedure(proc_name, event_name, cast) ==
    Rendered(proc_name, "notification", event_name, cast, NoArg)

\* Mutant: the node is always looked up by NEW.node_id.
render_node_related_notification_procedure_New(proc_name, node_id_relation) ==
    Rendered(proc_name, "node_related_notification", "",
             <<"NEW", "node_id">>, NoArg)

render_node_related_notification_procedure(proc_name, node_id_relation) ==
    Rendered(proc_name, "node_related_notification", "", node_id_relation,
             NoArg)

(***************************************************************************)
(* The registry: the functions and triggers installed in the database.     *)
(***************************************************************************)
EmptyProcs == [n \in {} |-> NoArg]

\* No view in the database.
EmptyViews == [n \in {} |-> ""]

EmptyRegistry ==
    [procs |-> EmptyProcs, trigs |-> {}, views |-> EmptyViews,
     error |-> FALSE]

None == <<>>
Params(key, value) == <<key, value>>

\* Python's "%s" % value for a bool.
PyStr(value) == IF value THEN "True" ELSE "False"

NoFilter == [image |-> "", column |-> "", literal |-> ""]


\* 'WHEN (' + "%s = '%s'" % (key, value) + ')', or '' for params None.
TriggerFilter(params) ==
    IF params = None THEN NoFilter
    ELSE [image |-> params[1][1], column |-> params[1][2],
          literal |-> PyStr(params[2])]

\* The row images a row-level trigger of the event may reference: CREATE
\* TRIGGER rejects a WHEN condition on NEW for DELETE and on OLD for INSERT.
Images(event) ==
    CASE event = "insert" -> {"NEW"}
      [] event = "update" -> {"OLD", "NEW"}
      [] event = "delete" -> {"OLD"}

\* CREATE OR REPLACE FUNCTION: the text replaces any function of that name.
register_procedure(reg, procedure) ==
    [reg EXCEPT !.procs =
        [n \in DOMAIN reg.procs \cup {procedure.name} |->
            IF n = procedure.name THEN procedure ELSE reg.procs[n]]]

\* Mutant: the trigger is not dropped.
DropTriggerIfExists_Kept(trigs, trigger_name, table) == trigs

\* DROP TRIGGER IF EXISTS name ON table.
DropTriggerIfExists(trigs, trigger_name, table) ==
    {t \in trigs : ~(t.name = trigger_name /\ t.table = table)}

\* CREATE TRIGGER raises when the name is taken on the table, when the
\* procedure does not exist, or when the WHEN condition references an image
\* the event has not.
CreateTriggerFails(reg, trigs, trigger) ==
    \/ \E t \in trigs : t.name = trigger.name /\ t.table = trigger.table
    \/ trigger.procedure \notin DOMAIN reg.procs
    \/ /\ trigger.filter # NoFilter
       /\ trigger.filter.image \notin Images(trigger.event)

\* Mutant: the trigger is named after the table and the event.
register_trigger_NamedByEvent(reg, table, procedure, event, params) ==
    LET trigger_name == table \o "_" \o event
        trigger == [name |-> trigger_name, table |-> table,
                    when |-> "AFTER", event |-> event,
                    filter |-> TriggerFilter(params),
                    procedure |-> procedure]
        dropped == DropTriggerIfExists(reg.trigs, trigger_name, table)
    IN  IF CreateTriggerFails(reg, dropped, trigger)
        THEN [reg EXCEPT !.error = TRUE]
        ELSE [reg EXCEPT !.trigs = dropped \cup {trigger}]

\* Mutant: nothing is dropped, and the trigger gets a name not yet taken.
register_trigger_Accumulate(reg, table, procedure, event, params) ==
    LET trigger == [name |-> table \o "_" \o procedure \o "_"
                            \o ToString(Cardinality(reg.trigs)),
                    table |-> table, when |-> "AFTER", event |-> event,
                    filter |-> TriggerFilter(params),
                    procedure |-> procedure]
    IN  IF CreateTriggerFails(reg, reg.trigs, trigger)
        THEN [reg EXCEPT !.error = TRUE]
        ELSE [reg EXCEPT !.trigs = @ \cup {trigger}]

register_trigger(reg, table, procedure, event, params) ==
    LET trigger_name == table \o "_" \o procedure
        trigger == [name |-> trigger_name, table |-> table,
                    when |-> "AFTER", event |-> event,
                    filter |-> TriggerFilter(params),
                    procedure |-> procedure]
        dropped == DropTriggerIfExists(reg.trigs, trigger_name, table)
    IN  IF CreateTriggerFails(reg, dropped, trigger)
        THEN [reg EXCEPT !.error = TRUE]
        ELSE [reg EXCEPT !.trigs = dropped \cup {trigger}]

Procedure(procedure) ==
    [call |-> "register_procedure", procedure |-> procedure]

Trigger(table, procedure, event, params) ==
    [call |-> "register_trigger", table |-> table, procedure |-> procedure,
     event |-> event, params |-> params]

\* The calls register_all_triggers makes, in order.
RegisterAllCalls == <<
    Procedure(render_notification_procedure(
        "node_create_notify", "node_create", <<"NEW", "system_id">>)),
    Procedure(render_notification_procedure(
        "node_update_notify", "node_update", <<"NEW", "system_id">>)),
    Procedure(render_notification_procedure(
        "node_delete_notify", "node_delete", <<"OLD", "system_id">>)),
    Trigger("maasserver_node", "node_create_notify", "insert", Params(
        <<"NEW", "installable">>, TRUE)),
    Trigger("maasserver_node", "node_update_notify", "update", Params(
        <<"NEW", "installable">>, TRUE)),
    Trigger("maasserver_node", "node_delete_notify", "delete", Params(
        <<"OLD", "installable">>, TRUE)),
    Procedure(render_notification_procedure(
        "device_create_notify", "device_create", <<"NEW", "system_id">>)),
    Procedure(render_notification_procedure(
        "device_update_notify", "device_update", <<"NEW", "system_id">>)),
    Procedure(render_notification_procedure(
        "device_delete_notify", "device_delete", <<"OLD", "system_id">>)),
    Trigger("maasserver_node", "device_create_notify", "insert", Params(
        <<"NEW", "installable">>, FALSE)),
    Trigger("maasserver_node", "device_update_notify", "update", Params(
        <<"NEW", "installable">>, FALSE)),
    Trigger("maasserver_node", "device_delete_notify", "delete", Params(
        <<"OLD", "installable">>, FALSE)),
    Procedure(render_notification_procedure(
        "nodegroup_create_notify", "nodegroup_create", <<"NEW", "id">>)),
    Procedure(render_notification_procedure(
        "nodegroup_update_notify", "nodegroup_update", <<"NEW", "id">>)),
    Procedure(render_notification_procedure(
        "nodegroup_delete_notify", "nodegroup_delete", <<"OLD", "id">>)),
    Trigger("maasserver_nodegroup", "nodegroup_create_notify", "insert", None),
    Trigger("maasserver_nodegroup", "nodegroup_update_notify", "update", None),
    Trigger("maasserver_nodegroup", "nodegroup_delete_notify", "delete", None),
    Procedure(NODEGROUP_INTERFACE_NODEGROUP_NOTIFY(
        "nodegroupinterface_create_notify", <<"NEW", "nodegroup_id">>)),
    Procedure(NODEGROUP_INTERFACE_NODEGROUP_NOTIFY(
        "nodegroupinterface_update_notify", <<"NEW", "nodegroup_id">>)),
    Procedure(NODEGROUP_INTERFACE_NODEGROUP_NOTIFY(
        "nodegroupinterface_delete_notify", <<"OLD", "nodegroup_id">>)),
    Trigger("maasserver_nodegroupinterface", "nodegroupinterface_create_notify", "insert", None),
    Trigger("maasserver_nodegroupinterface", "nodegroupinterface_update_notify", "update", None),
    Trigger("maasserver_nodegroupinterface", "nodegroupinterface_delete_notify", "delete", None),
    Procedure(render_notification_procedure("zone_create_notify", "zone_create", <<"NEW", "id">>)),
    Procedure(render_notification_procedure("zone_update_notify", "zone_update", <<"NEW", "id">>)),
    Procedure(render_notification_procedure("zone_delete_notify", "zone_delete", <<"OLD", "id">>)),
    Trigger("maasserver_zone", "zone_create_notify", "insert", None),
    Trigger("maasserver_zone", "zone_update_notify", "update", None),
    Trigger("maasserver_zone", "zone_delete_notify", "delete", None),
    Procedure(render_notification_procedure("tag_create_notify", "tag_create", <<"NEW", "id">>)),
    Procedure(render_notification_procedure("tag_update_notify", "tag_update", <<"NEW", "id">>)),
    Procedure(render_notification_procedure("tag_delete_notify", "tag_delete", <<"OLD", "id">>)),
    Trigger("maasserver_tag", "tag_create_notify", "insert", None),
    Trigger("maasserver_tag", "tag_update_notify", "update", None),
    Trigger("maasserver_tag", "tag_delete_notify", "delete", None),
    Procedure(NODE_TAG_NOTIFY("node_device_tag_link_notify", <<"NEW", "node_id">>)),
    Procedure(NODE_TAG_NOTIFY("node_device_tag_unlink_notify", <<"OLD", "node_id">>)),
    Trigger("maasserver_node_tags", "node_device_tag_link_notify", "insert", None),
    Trigger("maasserver_node_tags", "node_device_tag_unlink_notify", "delete", None),
    Procedure(TAG_NODES_NOTIFY),
    Trigger("maasserver_tag", "tag_update_node_device_notify", "update", None),
    Procedure(render_notification_procedure("user_create_notify", "user_create", <<"NEW", "id">>)),
    Procedure(render_notification_procedure("user_update_notify", "user_update", <<"NEW", "id">>)),
    Procedure(render_notification_procedure("user_delete_notify", "user_delete", <<"OLD", "id">>)),
    Trigger("auth_user", "user_create_notify", "insert", None),
    Trigger("auth_user", "user_update_notify", "update", None),
    Trigger("auth_user", "user_delete_notify", "delete", None),
    Procedure(render_notification_procedure(
        "event_create_notify", "event_create", <<"NEW", "id">>)),
    Procedure(render_notification_procedure(
        "event_update_notify", "event_update", <<"NEW", "id">>)),
    Procedure(render_notification_procedure(
        "event_delete_notify", "event_delete", <<"OLD", "id">>)),
    Trigger("maasserver_event", "event_create_notify", "insert", None),
    Trigger("maasserver_event", "event_update_notify", "update", None),
    Trigger("maasserver_event", "event_delete_notify", "delete", None),
    Procedure(EVENT_NODE_NOTIFY),
    Trigger("maasserver_event", "event_create_node_device_notify", "insert", None),
    Procedure(MACSTATICIPADDRESSLINK_NODE_NOTIFY(
        "nd_sipaddress_link_notify", <<"NEW", "mac_address_id">>)),
    Procedure(MACSTATICIPADDRESSLINK_NODE_NOTIFY(
        "nd_sipaddress_unlink_notify", <<"OLD", "mac_address_id">>)),
    Trigger("maasserver_macstaticipaddresslink", "nd_sipaddress_link_notify", "insert", None),
    Trigger("maasserver_macstaticipaddresslink", "nd_sipaddress_unlink_notify", "delete", None),
    Procedure(DHCPLEASE_NODE_NOTIFY("nd_dhcplease_match_notify", <<"NEW", "mac">>)),
    Procedure(DHCPLEASE_NODE_NOTIFY("nd_dhcplease_unmatch_notify", <<"OLD", "mac">>)),
    Trigger("maasserver_dhcplease", "nd_dhcplease_match_notify", "insert", None),
    Trigger("maasserver_dhcplease", "nd_dhcplease_unmatch_notify", "delete", None),
    Procedure(render_node_related_notification_procedure(
        "nd_noderesult_link_notify", <<"NEW", "node_id">>)),
    Procedure(render_node_related_notification_procedure(
        "nd_noderesult_unlink_notify", <<"OLD", "node_id">>)),
    Trigger("metadataserver_noderesult", "nd_noderesult_link_notify", "insert", None),
    Trigger("metadataserver_noderesult", "nd_noderesult_unlink_notify", "delete", None),
    Procedure(render_node_related_notification_procedure(
        "nd_macaddress_link_notify", <<"NEW", "node_id">>)),
    Procedure(render_node_related_notification_procedure(
        "nd_macaddress_unlink_notify", <<"OLD", "node_id">>)),
    Procedure(MACADDRESS_UPDATE_NODE_NOTIFY),
    Trigger("maasserver_macaddress", "nd_macaddress_link_notify", "insert", None),
    Trigger("maasserver_macaddress", "nd_macaddress_unlink_notify", "delete", None),
    Trigger("maasserver_macaddress", "nd_macaddress_update_notify", "update", None),
    Procedure(render_node_related_notification_procedure(
        "nd_blockdevice_link_notify", <<"NEW", "node_id">>)),
    Procedure(render_node_related_notification_procedure(
        "nd_blockdevice_update_notify", <<"NEW", "node_id">>)),
    Procedure(render_node_related_notification_procedure(
        "nd_blockdevice_unlink_notify", <<"OLD", "node_id">>)),
    Procedure(PHYSICAL_OR_VIRTUAL_BLOCK_DEVICE_NODE_NOTIFY(
        "nd_physblockdevice_update_notify", <<"NEW", "blockdevice_ptr_id">>)),
    Procedure(PHYSICAL_OR_VIRTUAL_BLOCK_DEVICE_NODE_NOTIFY(
        "nd_virtblockdevice_update_notify", <<"NEW", "blockdevice_ptr_id">>)),
    Trigger("maasserver_blockdevice", "nd_blockdevice_link_notify", "insert", None),
    Trigger("maasserver_blockdevice", "nd_blockdevice_update_notify", "update", None),
    Trigger("maasserver_blockdevice", "nd_blockdevice_unlink_notify", "delete", None),
    Trigger("maasserver_physicalblockdevice", "nd_physblockdevice_update_notify", "update", None),
    Trigger("maasserver_virtualblockdevice", "nd_virtblockdevice_update_notify", "update", None),
    Procedure(PARTITIONTABLE_NODE_NOTIFY(
        "nd_partitiontable_link_notify", <<"NEW", "block_device_id">>)),
    Procedure(PARTITIONTABLE_NODE_NOTIFY(
        "nd_partitiontable_update_notify", <<"NEW", "block_device_id">>)),
    Procedure(PARTITIONTABLE_NODE_NOTIFY(
        "nd_partitiontable_unlink_notify", <<"OLD", "block_device_id">>)),
    Trigger("maasserver_partitiontable", "nd_partitiontable_link_notify", "insert", None),
    Trigger("maasserver_partitiontable", "nd_partitiontable_update_notify", "update", None),
    Trigger("maasserver_partitiontable", "nd_partitiontable_unlink_notify", "delete", None),
    Procedure(PARTITION_NODE_NOTIFY("nd_partition_link_notify", <<"NEW", "partition_table_id">>)),
    Procedure(PARTITION_NODE_NOTIFY("nd_partition_update_notify", <<"NEW", "partition_table_id">>)),
    Procedure(PARTITION_NODE_NOTIFY("nd_partition_unlink_notify", <<"OLD", "partition_table_id">>)),
    Trigger("maasserver_partition", "nd_partition_link_notify", "insert", None),
    Trigger("maasserver_partition", "nd_partition_update_notify", "update", None),
    Trigger("maasserver_partition", "nd_partition_unlink_notify", "delete", None),
    Procedure(FILESYSTEM_NODE_NOTIFY(
        "nd_filesystem_link_notify", <<"NEW", "block_device_id">>, <<"NEW", "partition_id">>)),
    Procedure(FILESYSTEM_NODE_NOTIFY(
        "nd_filesystem_update_notify", <<"NEW", "block_device_id">>, <<"NEW", "partition_id">>)),
    Procedure(FILESYSTEM_NODE_NOTIFY(
        "nd_filesystem_unlink_notify", <<"OLD", "block_device_id">>, <<"OLD", "partition_id">>)),
    Trigger("maasserver_filesystem", "nd_filesystem_link_notify", "insert", None),
    Trigger("maasserver_filesystem", "nd_filesystem_update_notify", "update", None),
    Trigger("maasserver_filesystem", "nd_filesystem_unlink_notify", "delete", None),
    Procedure(FILESYSTEMGROUP_NODE_NOTIFY(
        "nd_filesystemgroup_link_notify", <<"NEW", "id">>, <<"NEW", "cache_set_id">>)),
    Procedure(FILESYSTEMGROUP_NODE_NOTIFY(
        "nd_filesystemgroup_update_notify", <<"NEW", "id">>, <<"NEW", "cache_set_id">>)),
    Procedure(FILESYSTEMGROUP_NODE_NOTIFY(
        "nd_filesystemgroup_unlink_notify", <<"OLD", "id">>, <<"OLD", "cache_set_id">>)),
    Trigger("maasserver_filesystemgroup", "nd_filesystemgroup_link_notify", "insert", None),
    Trigger("maasserver_filesystemgroup", "nd_filesystemgroup_update_notify", "update", None),
    Trigger("maasserver_filesystemgroup", "nd_filesystemgroup_unlink_notify", "delete", None),
    Procedure(CACHESET_NODE_NOTIFY("nd_cacheset_link_notify", <<"NEW", "id">>)),
    Procedure(CACHESET_NODE_NOTIFY("nd_cacheset_update_notify", <<"NEW", "id">>)),
    Procedure(CACHESET_NODE_NOTIFY("nd_cacheset_unlink_notify", <<"OLD", "id">>)),
    Trigger("maasserver_cacheset", "nd_cacheset_link_notify", "insert", None),
    Trigger("maasserver_cacheset", "nd_cacheset_update_notify", "update", None),
    Trigger("maasserver_cacheset", "nd_cacheset_unlink_notify", "delete", None),
    Procedure(render_notification_procedure(
        "user_sshkey_link_notify", "user_update", <<"NEW", "user_id">>)),
    Procedure(render_notification_procedure(
        "user_sshkey_unlink_notify", "user_update", <<"OLD", "user_id">>)),
    Trigger("maasserver_sshkey", "user_sshkey_link_notify", "insert", None),
    Trigger("maasserver_sshkey", "user_sshkey_unlink_notify", "delete", None),
    Procedure(render_notification_procedure(
        "user_sslkey_link_notify", "user_update", <<"NEW", "user_id">>)),
    Procedure(render_notification_procedure(
        "user_sslkey_unlink_notify", "user_update", <<"OLD", "user_id">>)),
    Trigger("maasserver_sslkey", "user_sslkey_link_notify", "insert", None),
    Trigger("maasserver_sslkey", "user_sslkey_unlink_notify", "delete", None)
    >>

Apply(reg, c) ==
    IF c.call = "register_procedure"
    THEN register_procedure(reg, c.procedure)
    ELSE register_trigger(reg, c.table, c.procedure, c.event, c.params)

\* The registry after calls lo..hi of register_all_triggers, from reg; a
\* call that raises ends the run.
RECURSIVE RegisterCalls(_, _, _)
RegisterCalls(reg, lo, hi) ==
    IF reg.error \/ lo > hi THEN reg
    ELSE IF lo = hi THEN Apply(reg, RegisterAllCalls[lo])
    ELSE LET mid == (lo + hi) \div 2
         IN  RegisterCalls(RegisterCalls(reg, lo, mid), mid + 1, hi)

register_all_triggers(reg) == RegisterCalls(reg, 1, Len(RegisterAllCalls))

(***************************************************************************)
(* The tracked tables.  A row is a record of the columns the procedures    *)
(* and filters read.                                                       *)

(***************************************************************************)
(* dbviews.py.  A view is its name and the SELECT it stands for, named     *)
(* here by the module variable that holds the text.                        *)
(***************************************************************************)
\* The keys of _ALL_VIEWS.
ViewNames == <<
    "maasserver_discovery",
    "maas_support__node_overview",
    "maas_support__device_overview",
    "maas_support__node_networking",
    "maas_support__boot_source_selections",
    "maas_support__boot_source_cache",
    "maas_support__configuration__excluding_rpc_shared_secret",
    "maas_support__license_keys_present__excluding_key_material",
    "maas_support__ssh_keys__by_user",
    "maas_support__commissioning_result_summary">>

\* _ALL_VIEWS: each key maps to the variable of the same name.
ALL_VIEWS == [n \in {ViewNames[i] : i \in DOMAIN ViewNames} |-> n]

\* Mutant: DROP VIEW without IF EXISTS; dropping an absent view raises.
drop_view_if_exists_Strict(reg, view_name) ==
    IF view_name \in DOMAIN reg.views
    THEN [reg EXCEPT !.views =
            [n \in DOMAIN reg.views \ {view_name} |-> reg.views[n]]]
    ELSE [reg EXCEPT !.error = TRUE]

\* DROP VIEW IF EXISTS view_name.
drop_view_if_exists(reg, view_name) ==
    [reg EXCEPT !.views =
        [n \in DOMAIN reg.views \ {view_name} |-> reg.views[n]]]

\* CREATE OR REPLACE VIEW view_name AS (view_sql).
register_view_sql(reg, view_name, view_sql) ==
    [reg EXCEPT !.views =
        [n \in DOMAIN reg.views \cup {view_name} |->
            IF n = view_name THEN view_sql ELSE reg.views[n]]]

RECURSIVE RegisterViews(_, _)
RegisterViews(reg, k) ==
    IF k = 0 THEN reg
    ELSE register_view_sql(RegisterViews(reg, k - 1), ViewNames[k],
                           ALL_VIEWS[ViewNames[k]])

\* for view_name, view_sql in _ALL_VIEWS.items(): _register_view(...).
register_all_views(reg) == RegisterViews(reg, Len(ViewNames))

RECURSIVE DropViews(_, _)
DropViews(reg, k) ==
    IF k = 0 THEN reg
    ELSE drop_view_if_exists(DropViews(reg, k - 1), ViewNames[k])

\* Mutant: the loop stops one key short.
drop_all_views_OneShort(reg) == DropViews(reg, Len(ViewNames) - 1)

\* for view_name in _ALL_VIEWS.keys(): _drop_view_if_exists(view_name).
drop_all_views(reg) == DropViews(reg, Len(ViewNames))

\* register_view(view_name), for tests.
register_view(reg, view_name) ==
    register_view_sql(reg, view_name, ALL_VIEWS[view_name])

(***************************************************************************)
Tables == {
    "maasserver_node", "maasserver_nodegroup",
    "maasserver_nodegroupinterface", "maasserver_zone", "maasserver_tag",
    "maasserver_node_tags", "auth_user", "maasserver_event",
    "maasserver_macstaticipaddresslink", "maasserver_dhcplease",
    "metadataserver_noderesult", "maasserver_macaddress",
    "maasserver_blockdevice", "maasserver_physicalblockdevice",
    "maasserver_virtualblockdevice", "maasserver_partitiontable",
    "maasserver_partition", "maasserver_filesystem",
    "maasserver_filesystemgroup", "maasserver_cacheset",
    "maasserver_sshkey", "maasserver_sslkey"}

Events == {"insert", "update", "delete"}

\* The system_id of the node with id i: distinct per node, and no number.
SystemIds == <<"node-a", "node-b", "node-c", "node-d">>

MACs == {"00:16:3e:00:00:01", "00:16:3e:00:00:02"}

\* The rows a table can hold, within the bounds.  An id column that may be
\* NULL ranges from 0.
Candidates(table) ==
    CASE table = "maasserver_node" ->
            {[id |-> i, system_id |-> SystemIds[i], installable |-> b] :
                i \in 1..MaxNodes, b \in BOOLEAN}
      [] table \in {"maasserver_zone", "maasserver_tag", "auth_user",
                    "maasserver_cacheset"} ->
            [id : 1..MaxRows]
      [] table = "maasserver_nodegroup" ->
            [id : 1..MaxNodeGroups]
      [] table = "maasserver_nodegroupinterface" ->
            [id : 1..MaxRows, nodegroup_id : 1..MaxNodeGroups]
      [] table = "maasserver_node_tags" ->
            [id : 1..MaxNodes, node_id : 1..MaxNodes, tag_id : 1..MaxRows]
      [] table \in {"maasserver_event", "metadataserver_noderesult"} ->
            [id : 1..MaxRows, node_id : 1..MaxNodes]
      [] table = "maasserver_macstaticipaddresslink" ->
            [id : 1..MaxRows, mac_address_id : 1..MaxRows]
      [] table = "maasserver_dhcplease" ->
            [id : 1..MaxRows, mac : MACs]
      [] table = "maasserver_macaddress" ->
            [id : 1..MaxRows, node_id : NULL..MaxNodes, mac_address : MACs]
      [] table = "maasserver_blockdevice" ->
            [id : 1..MaxBlockDevices, node_id : 1..MaxNodes]
      [] table \in {"maasserver_physicalblockdevice",
                    "maasserver_virtualblockdevice"} ->
            [blockdevice_ptr_id : 1..MaxBlockDevices]
      [] table = "maasserver_partitiontable" ->
            [id : 1..MaxRows, block_device_id : 1..MaxBlockDevices]
      [] table = "maasserver_partition" ->
            [id : 1..MaxRows, partition_table_id : 1..MaxRows]
      [] table = "maasserver_filesystem" ->
            [id : 1..MaxRows, block_device_id : NULL..MaxBlockDevices,
             partition_id : NULL..MaxRows,
             filesystem_group_id : NULL..MaxRows,
             cache_set_id : NULL..MaxRows]
      [] table = "maasserver_filesystemgroup" ->
            [id : 1..MaxRows, cache_set_id : NULL..MaxRows]
      [] table \in {"maasserver_sshkey", "maasserver_sslkey"} ->
            [id : 1..MaxRows, user_id : 1..MaxRows]

PrimaryKey(table) ==
    IF table \in {"maasserver_physicalblockdevice",
                  "maasserver_virtualblockdevice"}
    THEN "blockdevice_ptr_id" ELSE "id"

\* The columns of a table that reference the id of another table's row.
ForeignKeys(table) ==
    CASE table \in {"maasserver_node_tags"} ->
            {<<"node_id", "maasserver_node">>, <<"tag_id", "maasserver_tag">>}
      [] table \in {"maasserver_event", "metadataserver_noderesult",
                    "maasserver_macaddress", "maasserver_blockdevice"} ->
            {<<"node_id", "maasserver_node">>}
      [] table = "maasserver_nodegroupinterface" ->
            {<<"nodegroup_id", "maasserver_nodegroup">>}
      [] table = "maasserver_macstaticipaddresslink" ->
            {<<"mac_address_id", "maasserver_macaddress">>}
      [] table \in {"maasserver_physicalblockdevice",
                    "maasserver_virtualblockdevice"} ->
            {<<"blockdevice_ptr_id", "maasserver_blockdevice">>}
      [] table = "maasserver_partitiontable" ->
            {<<"block_device_id", "maasserver_blockdevice">>}
      [] table = "maasserver_partition" ->
            {<<"partition_table_id", "maasserver_partitiontable">>}
      [] table = "maasserver_filesystem" ->
            {<<"block_device_id", "maasserver_blockdevice">>,
             <<"partition_id", "maasserver_partition">>,
             <<"filesystem_group_id", "maasserver_filesystemgroup">>,
             <<"cache_set_id", "maasserver_cacheset">>}
      [] table = "maasserver_filesystemgroup" ->
            {<<"cache_set_id", "maasserver_cacheset">>}
      [] table \in {"maasserver_sshkey", "maasserver_sslkey"} ->
            {<<"user_id", "auth_user">>}
      [] OTHER -> {}

\* Every reference of the row is NULL or names a row that exists.
ReferencesHold(T, table, row) ==
    \A fk \in ForeignKeys(table) :
        \/ row[fk[1]] = NULL
        \/ \E r \in T[fk[2]] : r.id = row[fk[1]]

\* No row references the row.
Unreferenced(T, table, row) ==
    \A t \in Tables : \A fk \in ForeignKeys(t) :
        fk[2] = table => \A r \in T[t] : r[fk[1]] # row[PrimaryKey(table)]

\* The unique constraints: the primary key, a MAC address, a (node, tag) link.
Unique(T, table) ==
    \A r1, r2 \in T[table] :
        r1 # r2 =>
            /\ r1[PrimaryKey(table)] # r2[PrimaryKey(table)]
            /\ table = "maasserver_macaddress" =>
                    r1.mac_address # r2.mac_address
            /\ table = "maasserver_node_tags" =>
                    <<r1.node_id, r1.tag_id>> # <<r2.node_id, r2.tag_id>>

EmptyTables == [t \in Tables |-> {}]

(***************************************************************************)
(* PL/pgSQL.  A nullable scalar is <<>> (NULL) or <<v>>.                   *)
(***************************************************************************)
SqlNull == <<>>
Scalar(v) == <<v>>

\* a = b of SQL in a WHERE clause, for id columns: never true of a NULL.
SqlEq(a, b) == a # NULL /\ b # NULL /\ a = b

\* OLD.column or NEW.column.
Value(ref, old, new) == IF ref[1] = "NEW" THEN new[ref[2]] ELSE old[ref[2]]

\* CAST(ref AS text).
CastAsText(ref, old, new) ==
    LET v == Value(ref, old, new)
    IN  IF ref[2] \in {"system_id", "mac", "mac_address"} THEN Scalar(v)
        ELSE IF v = NULL THEN SqlNull
        ELSE Scalar(ToString(v))

\* pg_notify(channel, payload): a NULL payload is sent as the empty string.
pg_notify(channel, payload) ==
    [channel |-> channel,
     payload |-> IF payload = SqlNull THEN "" ELSE payload[1]]

\* Mutant: the installable column is not read; every node found counts as
\* installable.
SelectInto_AlwaysInstallable(rows) ==
    IF rows = {}
    THEN {[system_id |-> SqlNull, installable |-> SqlNull]}
    ELSE {[system_id |-> Scalar(r.system_id),
           installable |-> Scalar(TRUE)] : r \in rows}

\* SELECT system_id, installable INTO node: some row of the result (there is
\* no ORDER BY), or NULL in every column when the result is empty.
SelectInto(rows) ==
    IF rows = {}
    THEN {[system_id |-> SqlNull, installable |-> SqlNull]}
    ELSE {[system_id |-> Scalar(r.system_id),
           installable |-> Scalar(r.installable)] : r \in rows}

\* Mutant: the branches are swapped.
NotifyNodeOrDevice_Swapped(node) ==
    IF node.installable = Scalar(TRUE)
    THEN pg_notify("device_update", node.system_id)
    ELSE pg_notify("node_update", node.system_id)

\* IF node.installable THEN node_update ELSE device_update END IF: a NULL
\* condition takes the ELSE branch.
NotifyNodeOrDevice(node) ==
    IF node.installable = Scalar(TRUE)
    THEN pg_notify("node_update", node.system_id)
    ELSE pg_notify("device_update", node.system_id)

\* Mutant: the guard is left out.
NotifyNodeIfFound_Unguarded(node) ==
    <<pg_notify("node_update", node.system_id)>>

\* IF node.system_id != '' THEN node_update END IF: NULL != '' is not true.
NotifyNodeIfFound(node) ==
    IF node.system_id # SqlNull /\ node.system_id[1] # ""
    THEN <<pg_notify("node_update", node.system_id)>>
    ELSE <<>>

Range(seq) == {seq[i] : i \in DOMAIN seq}

\* The orders in which the elements of a finite set can be taken.
Orderings(S) ==
    {f \in [1..Cardinality(S) -> S] :
        \A i, j \in 1..Cardinality(S) : i # j => f[i] # f[j]}

(***************************************************************************)
(* The procedure bodies.  Each gives the notification sequences a run of   *)
(* the procedure can emit, for the row images OLD and NEW and the tables T *)
(* as the triggering statement left them.                                  *)
(***************************************************************************)
NodeById(T, id) == {n \in T["maasserver_node"] : SqlEq(n.id, id)}

\* Mutant: PERFORM pg_notify twice.
RunNotification_Twice(p, old, new, T) ==
    {<<pg_notify(p.channel, CastAsText(p.arg1, old, new)),
       pg_notify(p.channel, CastAsText(p.arg1, old, new))>>}

\* render_notification_procedure: pg_notify('<event_name>', CAST(<cast> AS text)).
RunNotification(p, old, new, T) ==
    {<<pg_notify(p.channel, CastAsText(p.arg1, old, new))>>}

\* render_node_related_notification_procedure, NODE_TAG_NOTIFY and
\* EVENT_NODE_NOTIFY: FROM maasserver_node WHERE id = <relation>.
RunNodeRelated(p, old, new, T) ==
    {<<NotifyNodeOrDevice(node)>> :
        node \in SelectInto(NodeById(T, Value(p.arg1, old, new)))}

\* Mutant: SELECT ... INTO node instead of the FOR loop: one node is notified.
RunTagNodes_FirstRow(p, old, new, T) ==
    LET rows == {n \in T["maasserver_node"] :
                    \E l \in T["maasserver_node_tags"] :
                        /\ SqlEq(l.tag_id, Value(p.arg1, old, new))
                        /\ SqlEq(l.node_id, n.id)}
    IN  {<<NotifyNodeOrDevice(node)>> : node \in SelectInto(rows)}

\* TAG_NODES_NOTIFY: one notification per row of the join of
\* maasserver_node_tags and maasserver_node for the tag, in the order the
\* loop's query yields them.
RunTagNodes(p, old, new, T) ==
    LET rows == {<<l, n>> \in
                    T["maasserver_node_tags"] \X T["maasserver_node"] :
                    /\ SqlEq(l.tag_id, Value(p.arg1, old, new))
                    /\ SqlEq(l.node_id, n.id)}
    IN  {[i \in 1..Cardinality(rows) |->
            NotifyNodeOrDevice([system_id |-> Scalar(o[i][2].system_id),
                                installable |-> Scalar(o[i][2].installable)])] :
            o \in Orderings(rows)}

\* Mutant: the payload is the interface's own id.
RunNodeGroupInterface_OwnId(p, old, new, T) ==
    {<<pg_notify("nodegroup_update",
                 CastAsText(<<p.arg1[1], "id">>, old, new))>>}

\* NODEGROUP_INTERFACE_NODEGROUP_NOTIFY.
RunNodeGroupInterface(p, old, new, T) ==
    {<<pg_notify("nodegroup_update", CastAsText(p.arg1, old, new))>>}

\* MACSTATICIPADDRESSLINK_NODE_NOTIFY: maasserver_node joined to
\* maasserver_macaddress on node_id, for the MAC address id.
RunMacStaticIPAddressLink(p, old, new, T) ==
    LET rows == {n \in T["maasserver_node"] :
                    \E m \in T["maasserver_macaddress"] :
                        /\ SqlEq(n.id, m.node_id)
                        /\ SqlEq(m.id, Value(p.arg1, old, new))}
    IN  {<<NotifyNodeOrDevice(node)>> : node \in SelectInto(rows)}

\* DHCPLEASE_NODE_NOTIFY: the same join, for the lease's MAC.
RunDHCPLease(p, old, new, T) ==
    LET rows == {n \in T["maasserver_node"] :
                    \E m \in T["maasserver_macaddress"] :
                        /\ SqlEq(n.id, m.node_id)
                        /\ m.mac_address = Value(p.arg1, old, new)}
    IN  {<<NotifyNodeOrDevice(node)>> : node \in SelectInto(rows)}

\* Mutant: the new node only.
RunMacAddressUpdate_NewOnly(p, old, new, T) ==
    {<<NotifyNodeOrDevice(node)>> :
        node \in SelectInto(NodeById(T, Value(p.arg2, old, new)))}

\* MACADDRESS_UPDATE_NODE_NOTIFY: the old node when OLD.node_id != NEW.node_id
\* (not true when either is NULL), then the new node.
RunMacAddressUpdate(p, old, new, T) ==
    LET old_id == Value(p.arg1, old, new)
        new_id == Value(p.arg2, old, new)
        moved == old_id # NULL /\ new_id # NULL /\ old_id # new_id
        first == IF moved
                 THEN {<<NotifyNodeOrDevice(node)>> :
                          node \in SelectInto(NodeById(T, old_id))}
                 ELSE {<<>>}
        second == {<<NotifyNodeOrDevice(node)>> :
                      node \in SelectInto(NodeById(T, new_id))}
    IN  {a \o b : a \in first, b \in second}

\* The nodes of maasserver_node joined to maasserver_blockdevice on node_id,
\* for the block device id.
NodesOfBlockDevice(T, id) ==
    {n \in T["maasserver_node"] :
        \E b \in T["maasserver_blockdevice"] :
            SqlEq(n.id, b.node_id) /\ SqlEq(b.id, id)}

\* Mutant: FROM maasserver_node WHERE id = <relation>, without the join.
RunPhysicalOrVirtualBlockDevice_NoJoin(p, old, new, T) ==
    {<<NotifyNodeOrDevice(node)>> :
        node \in SelectInto(NodeById(T, Value(p.arg1, old, new)))}

\* PHYSICAL_OR_VIRTUAL_BLOCK_DEVICE_NODE_NOTIFY.
RunPhysicalOrVirtualBlockDevice(p, old, new, T) ==
    {<<NotifyNodeOrDevice(node)>> :
        node \in SelectInto(NodesOfBlockDevice(T, Value(p.arg1, old, new)))}

\* PARTITIONTABLE_NODE_NOTIFY, had it chosen the channel by node.installable.
RunPartitionTable_ByInstallable(p, old, new, T) ==
    {<<NotifyNodeOrDevice(node)>> :
        node \in SelectInto(NodesOfBlockDevice(T, Value(p.arg1, old, new)))}

\* PARTITIONTABLE_NODE_NOTIFY: pg_notify('node_update', ...) whatever the
\* query found.
RunPartitionTable(p, old, new, T) ==
    {<<pg_notify("node_update", node.system_id)>> :
        node \in SelectInto(NodesOfBlockDevice(T, Value(p.arg1, old, new)))}

\* PARTITION_NODE_NOTIFY: node, block device and partition table joined, for
\* the partition table id.
RunPartition(p, old, new, T) ==
    LET rows == {n \in T["maasserver_node"] :
                    \E b \in T["maasserver_blockdevice"],
                       pt \in T["maasserver_partitiontable"] :
                        /\ SqlEq(n.id, b.node_id)
                        /\ SqlEq(b.id, pt.block_device_id)
                        /\ SqlEq(pt.id, Value(p.arg1, old, new))}
    IN  {<<pg_notify("node_update", node.system_id)>> :
            node \in SelectInto(rows)}

\* FILESYSTEM_NODE_NOTIFY: the product of node, block device, partition and
\* partition table, WHERE a AND b OR (c AND d AND e).
RunFilesystem(p, old, new, T) ==
    LET rows == {n \in T["maasserver_node"] :
                    \E b \in T["maasserver_blockdevice"],
                       pa \in T["maasserver_partition"],
                       pt \in T["maasserver_partitiontable"] :
                        \/ /\ SqlEq(n.id, b.node_id)
                           /\ SqlEq(b.id, Value(p.arg1, old, new))
                        \/ /\ SqlEq(b.id, pt.block_device_id)
                           /\ SqlEq(pt.id, pa.partition_table_id)
                           /\ SqlEq(pa.id, Value(p.arg2, old, new))}
    IN  {NotifyNodeIfFound(node) : node \in SelectInto(rows)}

\* The nodes reached from a filesystem through its partition, that
\* partition's table and that table's block device.
NodesOfFilesystemPartition(T, f) ==
    {n \in T["maasserver_node"] :
        \E b \in T["maasserver_blockdevice"],
           pa \in T["maasserver_partition"],
           pt \in T["maasserver_partitiontable"] :
            /\ SqlEq(n.id, b.node_id)
            /\ SqlEq(b.id, pt.block_device_id)
            /\ SqlEq(pt.id, pa.partition_table_id)
            /\ SqlEq(pa.id, f.partition_id)}

\* FILESYSTEMGROUP_NODE_NOTIFY.
RunFilesystemGroup(p, old, new, T) ==
    LET rows == UNION {NodesOfFilesystemPartition(T, f) :
                    f \in {g \in T["maasserver_filesystem"] :
                        \/ SqlEq(g.filesystem_group_id,
                                 Value(p.arg1, old, new))
                        \/ SqlEq(g.cache_set_id, Value(p.arg2, old, new))}}
    IN  {NotifyNodeIfFound(node) : node \in SelectInto(rows)}

\* CACHESET_NODE_NOTIFY.
RunCacheSet(p, old, new, T) ==
    LET rows == UNION {NodesOfFilesystemPartition(T, f) :
                    f \in {g \in T["maasserver_filesystem"] :
                        SqlEq(g.cache_set_id, Value(p.arg1, old, new))}}
    IN  {NotifyNodeIfFound(node) : node \in SelectInto(rows)}

Raised == [raised |-> TRUE, out |-> <<>>]
Returned(out) == [raised |-> FALSE, out |-> out]

\* A run of procedure p as a row-level trigger of the event.  Reading a
\* column of an image the event has not (NEW on DELETE, OLD on INSERT)
\* raises.
Execute(p, event, old, new, T) ==
    IF \E ref \in {p.arg1, p.arg2} \ {NoArg} : ref[1] \notin Images(event)
    THEN {Raised}
    ELSE {Returned(out) : out \in
        CASE p.body = "notification" -> RunNotification(p, old, new, T)
          [] p.body \in {"node_related_notification", "NODE_TAG_NOTIFY",
                         "EVENT_NODE_NOTIFY"} ->
                RunNodeRelated(p, old, new, T)
          [] p.body = "TAG_NODES_NOTIFY" -> RunTagNodes(p, old, new, T)
          [] p.body = "NODEGROUP_INTERFACE_NODEGROUP_NOTIFY" ->
                RunNodeGroupInterface(p, old, new, T)
          [] p.body = "MACSTATICIPADDRESSLINK_NODE_NOTIFY" ->
                RunMacStaticIPAddressLink(p, old, new, T)
          [] p.body = "DHCPLEASE_NODE_NOTIFY" -> RunDHCPLease(p, old, new, T)
          [] p.body = "MACADDRESS_UPDATE_NODE_NOTIFY" ->
                RunMacAddressUpdate(p, old, new, T)
          [] p.body = "PHYSICAL_OR_VIRTUAL_BLOCK_DEVICE_NODE_NOTIFY" ->
                RunPhysicalOrVirtualBlockDevice(p, old, new, T)
          [] p.body = "PARTITIONTABLE_NODE_NOTIFY" ->
                RunPartitionTable(p, old, new, T)
          [] p.body = "PARTITION_NODE_NOTIFY" -> RunPartition(p, old, new, T)
          [] p.body = "FILESYSTEM_NODE_NOTIFY" ->
                RunFilesystem(p, old, new, T)
          [] p.body = "FILESYSTEMGROUP_NODE_NOTIFY" ->
                RunFilesystemGroup(p, old, new, T)
          [] p.body = "CACHESET_NODE_NOTIFY" -> RunCacheSet(p, old, new, T)}

(***************************************************************************)
(* Trigger dispatch.                                                       *)
(***************************************************************************)

\* Mutant: any non-empty literal reads as true.
PgBool_NonEmpty(literal) == literal # ""

\* The boolean a quoted literal of a WHEN condition is read as.
PgBool(literal) == literal = "True"


\* Mutant: the WHEN condition is tested on the other value.
FilterHolds_Negated(filter, old, new) ==
    \/ filter = NoFilter
    \/ Value(<<filter.image, filter.column>>, old, new)
            # (filter.literal = "True")

\* WHEN (<image>.<column> = '<literal>'), or no condition.
FilterHolds(filter, old, new) ==
    \/ filter = NoFilter
    \/ Value(<<filter.image, filter.column>>, old, new)
            = PgBool(filter.literal)

\* Mutant: the WHEN condition of an update is tested on the row as it was.
Firing_OnOld(reg, table, event, old, new) ==
    {t \in reg.trigs :
        /\ t.table = table
        /\ t.event = event
        /\ FilterHolds(t.filter, old, IF event = "update" THEN old ELSE new)}

\* The triggers a statement on a row of the table fires.
Firing(reg, table, event, old, new) ==
    {t \in reg.trigs :
        /\ t.table = table
        /\ t.event = event
        /\ FilterHolds(t.filter, old, new)}

\* The outcomes of running the first k triggers of the order, one after
\* the other; a procedure that raises ends the statement.
RECURSIVE RunTriggers(_, _, _, _, _, _, _)
RunTriggers(reg, order, k, event, old, new, T) ==
    IF k = 0 THEN {Returned(<<>>)}
    ELSE LET before == RunTriggers(reg, order, k - 1, event, old, new, T)
             this == Execute(reg.procs[order[k].procedure], event, old,
                             new, T)
         IN  {IF a.raised \/ b.raised THEN Raised
              ELSE Returned(a.out \o b.out) : a \in before, b \in this}

VARIABLES
    registry,   \* the functions and triggers installed, and whether a
                \* registration call raised
    regpc,      \* calls of RegisterAllCalls made by the running
                \* register_all_triggers; Len(RegisterAllCalls) when none runs
    reghist,    \* the registry as each run of register_all_triggers that
                \* completed in this behaviour left it
    db,         \* the rows of each table
    last,       \* the last statement: table, event, OLD and NEW
    fired,      \* the names of the triggers it fired, in firing order
    out,        \* the notifications they emitted, in order
    err,        \* whether a trigger of the statement raised
    tx,         \* per session, its current or last transaction block
    outcome,    \* per transaction block begun: open, aborted, commit, rollback
    delivered,  \* the notifications the listeners have received, in order
    node,       \* the node a node action is executed on: status and owner
    action      \* the last node action executed: its name and user, the
                \* status it found, what failed and what it raised

vars == <<registry, regpc, reghist, db, last, fired, out, err, tx, outcome,
          delivered, node, action>>
txvars == <<tx, outcome, delivered>>
actvars == <<node, action>>
dbvars == <<db, last, fired, out, err, txvars, actvars>>
regvars == <<registry, regpc, reghist>>

NoStatement == [table |-> "", event |-> "", old |-> NoRow, new |-> NoRow]

\* No node action yet, and no node under one.
NoAction ==
    [name |-> "", user |-> "", from |-> "", failure |-> "", raised |-> "",
     error |-> ""]
NoNode == [status |-> "", owner |-> ""]

Sessions == 1..MaxSessions

\* A session outside any transaction block.
NoTx == [id |-> 0, writes |-> <<>>, stmts |-> <<>>, pending |-> <<>>,
         dropped |-> FALSE]

InitDb ==
    /\ db = EmptyTables
    /\ last = NoStatement
    /\ fired = <<>>
    /\ out = <<>>
    /\ err = FALSE
    /\ tx = [s \in Sessions |-> NoTx]
    /\ outcome = <<>>
    /\ delivered = <<>>
    /\ node = NoNode
    /\ action = NoAction

(***************************************************************************)
(* Registration: a fresh database, and start_up running                    *)
(* register_all_triggers call by call.                                     *)
(***************************************************************************)
InitReg ==
    /\ registry = EmptyRegistry
    /\ regpc = Len(RegisterAllCalls)
    /\ reghist = <<>>
    /\ InitDb

\* start_up calls register_all_triggers.
RegisterBegin ==
    /\ regpc = Len(RegisterAllCalls)
    /\ ~registry.error
    /\ Len(reghist) < MaxRegCalls
    /\ regpc' = 0
    /\ UNCHANGED <<registry, reghist, dbvars>>

\* The registry as the last run that completed left it (the empty one
\* before any): what a run of register_all_triggers started from.
Committed ==
    IF reghist = <<>> THEN EmptyRegistry ELSE reghist[Len(reghist)]

\* @transactional: the decorated function runs in one transaction; when it
\* raises, the transaction is rolled back and the error is raised to the
\* caller.
transactional(before, after, raised) ==
    IF raised THEN [before EXCEPT !.error = TRUE] ELSE after

\* One register_procedure or register_trigger call of the running
\* register_all_triggers.
RegisterStep ==
    /\ regpc < Len(RegisterAllCalls)
    /\ ~registry.error
    /\ LET after == Apply(registry, RegisterAllCalls[regpc + 1])
       IN  registry' = transactional(Committed, after, after.error)
    /\ regpc' = IF registry'.error THEN regpc ELSE regpc + 1
    /\ reghist' = IF regpc' = Len(RegisterAllCalls) /\ ~registry'.error
                  THEN Append(reghist, registry')
                  ELSE reghist
    /\ UNCHANGED dbvars

NextReg == RegisterBegin \/ RegisterStep

SpecReg == InitReg /\ [][NextReg]_vars

\* Mutant: register_all_triggers without @transactional; what the calls
\* before the failing one installed stays.
RegisterRaise_Partial ==
    /\ regpc < Len(RegisterAllCalls)
    /\ ~registry.error
    /\ registry' = [registry EXCEPT !.error = TRUE]
    /\ UNCHANGED <<regpc, reghist, dbvars>>

\* cursor.execute of the next call raises (the database refuses the
\* statement): register_all_triggers raises; regpc stays at the number of
\* calls that had succeeded.
RegisterRaise ==
    /\ regpc < Len(RegisterAllCalls)
    /\ ~registry.error
    /\ registry' = transactional(Committed, registry, TRUE)
    /\ UNCHANGED <<regpc, reghist, dbvars>>

NextRegFail == RegisterBegin \/ RegisterStep \/ RegisterRaise

SpecRegFail == InitReg /\ [][NextRegFail]_vars

(***************************************************************************)
(* Statements on the tracked tables, once start_up has registered the      *)
(* triggers.  AFTER ROW triggers run once the row is written, in the       *)
(* statement's transaction; triggers of one event fire one after the       *)
(* other.                                                                  *)
(***************************************************************************)
Init ==
    /\ registry = register_all_triggers(EmptyRegistry)
    /\ regpc = Len(RegisterAllCalls)
    /\ reghist = <<>>
    /\ InitDb

\* Mutant: the triggers run BEFORE the row is written, where RETURN NEW
\* of a delete returns NULL and the row is kept.
Statement_Before(table, event, old, new, T) ==
    \E order \in Orderings(Firing(registry, table, event, old, new)) :
        \E res \in RunTriggers(registry, order, Len(order), event, old,
                               new, T) :
            /\ last' = [table |-> table, event |-> event, old |-> old,
                        new |-> new]
            /\ fired' = [i \in 1..Len(order) |-> order[i].name]
            /\ out' = res.out
            /\ err' = res.raised
            /\ db' = IF res.raised \/ (event = "delete" /\ Len(order) > 0)
                     THEN db ELSE T
            /\ UNCHANGED <<regvars, txvars, actvars>>

Statement(table, event, old, new, T) ==
    \E order \in Orderings(Firing(registry, table, event, old, new)) :
        \E res \in RunTriggers(registry, order, Len(order), event, old,
                               new, T) :
            /\ last' = [table |-> table, event |-> event, old |-> old,
                        new |-> new]
            /\ fired' = [i \in 1..Len(order) |-> order[i].name]
            /\ out' = res.out
            /\ err' = res.raised
            /\ db' = IF res.raised THEN db ELSE T
            /\ UNCHANGED <<regvars, txvars, actvars>>

Insert(table) ==
    \E new \in Candidates(table) :
        LET T == [db EXCEPT ![table] = @ \cup {new}]
        IN  /\ new \notin db[table]
            /\ Unique(T, table)
            /\ ReferencesHold(T, table, new)
            /\ Statement(table, "insert", NoRow, new, T)

Update(table) ==
    \E old \in db[table] : \E new \in Candidates(table) :
        LET T == [db EXCEPT ![table] = (@ \ {old}) \cup {new}]
        IN  /\ new[PrimaryKey(table)] = old[PrimaryKey(table)]
            /\ Unique(T, table)
            /\ ReferencesHold(T, table, new)
            /\ Statement(table, "update", old, new, T)

Delete(table) ==
    \E old \in db[table] :
        LET T == [db EXCEPT ![table] = @ \ {old}]
        IN  /\ Unreferenced(db, table, old)
            /\ Statement(table, "delete", old, NoRow, T)

\* Statements on the node table and on a table routed by its own row.
NodeTables == {"maasserver_node", "maasserver_zone"}

NextNode == \E table \in NodeTables :
    Insert(table) \/ Update(table) \/ Delete(table)

SpecNode == Init /\ [][NextNode]_vars

\* Statements on nodes, tags and the links between them.
TagTables == {"maasserver_node", "maasserver_tag", "maasserver_node_tags"}

NextTag == \E table \in TagTables :
    Insert(table) \/ Update(table) \/ Delete(table)

SpecTag == Init /\ [][NextTag]_vars

\* Statements on nodes, their block devices and the storage layered on them.
StorageTables == {"maasserver_node", "maasserver_blockdevice",
                  "maasserver_partitiontable", "maasserver_partition",
                  "maasserver_filesystem", "maasserver_filesystemgroup",
                  "maasserver_cacheset"}

NextStorage == \E table \in StorageTables :
    Insert(table) \/ Update(table) \/ Delete(table)

SpecStorage == Init /\ [][NextStorage]_vars

\* Statements on nodes, their MAC addresses, and the leases and static IP
\* links of those MAC addresses.
MacTables == {"maasserver_node", "maasserver_macaddress",
              "maasserver_dhcplease", "maasserver_macstaticipaddresslink"}

NextMac == \E table \in MacTables :
    Insert(table) \/ Update(table) \/ Delete(table)

SpecMac == Init /\ [][NextMac]_vars

\* Statements on users and their SSH and SSL keys, with nodes present.
KeyTables == {"auth_user", "maasserver_sshkey", "maasserver_sslkey",
              "maasserver_node"}

NextKey == \E table \in KeyTables :
    Insert(table) \/ Update(table) \/ Delete(table)

SpecKey == Init /\ [][NextKey]_vars

(***************************************************************************)
(* Transaction blocks.  Sessions run at READ COMMITTED: a statement sees   *)
(* the committed rows and the writes of its own transaction, and waits for *)
(* a row another transaction holds.  pg_notify queues the notification in  *)
(* the transaction; COMMIT delivers the queue to the listeners, ROLLBACK    *)
(* discards it.                                                            *)
(***************************************************************************)
\* The session's transaction block has not ended: it is open, or aborted
\* by a failed statement and not yet rolled back.
Holding(s) == tx[s].id # 0 /\ outcome[tx[s].id] \in {"open", "aborted"}

Open(s) == tx[s].id # 0 /\ outcome[tx[s].id] = "open"

RECURSIVE ApplyWrites(_, _, _)
ApplyWrites(T, writes, k) ==
    IF k = 0 THEN T
    ELSE LET w == writes[k]
             before == ApplyWrites(T, writes, k - 1)
             kept == IF w.old = NoRow THEN before[w.table]
                     ELSE before[w.table] \ {w.old}
         IN  [before EXCEPT ![w.table] =
                 IF w.new = NoRow THEN kept ELSE kept \cup {w.new}]

\* The tables as the session's next statement sees them.
View(s) == ApplyWrites(db, tx[s].writes, Len(tx[s].writes))

WrittenRow(w) == IF w.new = NoRow THEN w.old ELSE w.new

\* The writes of the other sessions' unfinished transactions.
OthersWrites(s) ==
    UNION {Range(tx[o].writes) : o \in {q \in Sessions \ {s} : Holding(q)}}

\* The statement waits for a lock: another transaction wrote the row,
\* references the row being deleted, or deleted a row being referenced.
Waits(s, table, old, new) ==
    LET row == IF new = NoRow THEN old ELSE new
    IN  \E w \in OthersWrites(s) :
            \/ /\ w.table = table
               /\ WrittenRow(w)[PrimaryKey(table)] = row[PrimaryKey(table)]
            \/ /\ new = NoRow
               /\ w.new # NoRow
               /\ \E fk \in ForeignKeys(w.table) :
                    fk[2] = table /\ w.new[fk[1]] = old[PrimaryKey(table)]
            \/ /\ new # NoRow
               /\ w.new = NoRow
               /\ \E fk \in ForeignKeys(table) :
                    fk[2] = w.table /\ new[fk[1]] = w.old[PrimaryKey(w.table)]

\* Mutant: an error of pg_notify is caught in the procedure.
Perform_Caught(res, fails) ==
    IF fails /\ res.out # <<>> THEN Returned(<<>>) ELSE res

\* PERFORM pg_notify(...) in a body with no EXCEPTION block: when pg_notify
\* raises, the procedure ends with that error.
Perform(res, fails) ==
    IF fails /\ res.out # <<>> THEN Raised ELSE res

\* The notifications of the statement, as queued: each with its transaction
\* and the number of the statement in the transaction and its place in the
\* queue.
Queued(s, notifications) ==
    [j \in 1..Len(notifications) |->
        [tx |-> tx[s].id, stmt |-> Len(tx[s].stmts) + 1,
         n |-> Len(tx[s].pending) + j,
         channel |-> notifications[j].channel,
         payload |-> notifications[j].payload]]

\* Mutant: the notifications reach the listeners as the trigger emits them.
TxStatement_Immediate(s, table, event, old, new, T) ==
    \E order \in Orderings(Firing(registry, table, event, old, new)) :
        \E res \in RunTriggers(registry, order, Len(order), event, old,
                               new, T) :
            /\ Open(s)
            /\ Len(tx[s].stmts) < MaxStmts
            /\ ~Waits(s, table, old, new)
            /\ last' = [table |-> table, event |-> event, old |-> old,
                        new |-> new]
            /\ fired' = [i \in 1..Len(order) |-> order[i].name]
            /\ out' = res.out
            /\ err' = res.raised
            /\ tx' = [tx EXCEPT ![s] =
                    [@ EXCEPT !.writes = Append(@, [table |-> table,
                                                    old |-> old, new |-> new]),
                              !.stmts = Append(@, last'),
                              !.pending = @ \o Queued(s, res.out)]]
            /\ delivered' = delivered \o Queued(s, res.out)
            /\ UNCHANGED <<db, outcome, regvars, actvars>>

\* Mutant: the notifications of a statement are queued ahead of those of
\* the statements before it.
TxStatement_Ahead(s, table, event, old, new, T) ==
    \E order \in Orderings(Firing(registry, table, event, old, new)) :
        \E res \in RunTriggers(registry, order, Len(order), event, old,
                               new, T) :
            /\ Open(s)
            /\ Len(tx[s].stmts) < MaxStmts
            /\ ~Waits(s, table, old, new)
            /\ last' = [table |-> table, event |-> event, old |-> old,
                        new |-> new]
            /\ fired' = [i \in 1..Len(order) |-> order[i].name]
            /\ out' = res.out
            /\ err' = res.raised
            /\ tx' = [tx EXCEPT ![s] =
                    [@ EXCEPT !.writes = Append(@, [table |-> table,
                                                    old |-> old, new |-> new]),
                              !.stmts = Append(@, last'),
                              !.pending = Queued(s, res.out) \o @]]
            /\ UNCHANGED <<db, outcome, delivered, regvars, actvars>>

\* A statement in the session's transaction block.  Its AFTER ROW triggers
\* run in the transaction; when one raises, the transaction is aborted.
TxStatement(s, table, event, old, new, T) ==
    \E order \in Orderings(Firing(registry, table, event, old, new)) :
        \E res \in RunTriggers(registry, order, Len(order), event, old,
                               new, T) :
            \E fails \in BOOLEAN :
                LET done == Perform(res, fails)
                    lost == fails /\ res.out # <<>>
                IN  /\ Open(s)
                    /\ Len(tx[s].stmts) < MaxStmts
                    /\ ~Waits(s, table, old, new)
                    /\ last' = [table |-> table, event |-> event,
                                old |-> old, new |-> new]
                    /\ fired' = [i \in 1..Len(order) |-> order[i].name]
                    /\ out' = done.out
                    /\ err' = done.raised
                    /\ tx' = [tx EXCEPT ![s] =
                            IF done.raised
                            THEN [@ EXCEPT !.dropped = @ \/ lost]
                            ELSE [@ EXCEPT
                                    !.writes = Append(@, [table |-> table,
                                                          old |-> old,
                                                          new |-> new]),
                                    !.stmts = Append(@, last'),
                                    !.pending = @ \o Queued(s, done.out),
                                    !.dropped = @ \/ lost]]
                    /\ outcome' = IF done.raised
                                  THEN [outcome EXCEPT ![tx[s].id] = "aborted"]
                                  ELSE outcome
                    /\ UNCHANGED <<db, delivered, regvars, actvars>>

TxInsert(s, table) ==
    \E new \in Candidates(table) :
        LET V == View(s)
            T == [V EXCEPT ![table] = @ \cup {new}]
        IN  /\ new \notin V[table]
            /\ Unique(T, table)
            /\ ReferencesHold(T, table, new)
            /\ TxStatement(s, table, "insert", NoRow, new, T)

TxUpdate(s, table) ==
    \E old \in View(s)[table] : \E new \in Candidates(table) :
        LET T == [View(s) EXCEPT ![table] = (@ \ {old}) \cup {new}]
        IN  /\ new[PrimaryKey(table)] = old[PrimaryKey(table)]
            /\ Unique(T, table)
            /\ ReferencesHold(T, table, new)
            /\ TxStatement(s, table, "update", old, new, T)

TxDelete(s, table) ==
    \E old \in View(s)[table] :
        LET T == [View(s) EXCEPT ![table] = @ \ {old}]
        IN  /\ Unreferenced(View(s), table, old)
            /\ TxStatement(s, table, "delete", old, NoRow, T)

\* BEGIN.
Begin(s) ==
    /\ ~Holding(s)
    /\ Len(outcome) < MaxTx
    /\ tx' = [tx EXCEPT ![s] = [NoTx EXCEPT !.id = Len(outcome) + 1]]
    /\ outcome' = Append(outcome, "open")
    /\ UNCHANGED <<db, last, fired, out, err, delivered, regvars, actvars>>

\* The queue without the notifications that repeat the channel and payload
\* of an earlier one of the transaction.
Folded(pending) ==
    SelectSeq(pending, LAMBDA e :
        ~\E j \in 1..(e.n - 1) :
            /\ pending[j].channel = e.channel
            /\ pending[j].payload = e.payload)

\* COMMIT: the writes become visible and the queue is delivered, in order;
\* PostgreSQL may deliver a repeated notification of the transaction once.
Commit(s) ==
    /\ Open(s)
    /\ db' = View(s)
    /\ outcome' = [outcome EXCEPT ![tx[s].id] = "commit"]
    /\ \E queue \in {tx[s].pending, Folded(tx[s].pending)} :
        delivered' = delivered \o queue
    /\ UNCHANGED <<tx, last, fired, out, err, regvars, actvars>>

\* ROLLBACK: the writes and the queue are discarded.
Rollback(s) ==
    /\ Holding(s)
    /\ outcome' = [outcome EXCEPT ![tx[s].id] = "rollback"]
    /\ UNCHANGED <<db, tx, last, fired, out, err, delivered, regvars, actvars>>

\* The statements of a transaction block on the tables.
TxStatements(s, tables) ==
    \E table \in tables :
        TxInsert(s, table) \/ TxUpdate(s, table) \/ TxDelete(s, table)

\* Concurrent transactions on nodes.
NextTx == \E s \in Sessions :
    \/ Begin(s)
    \/ Commit(s)
    \/ Rollback(s)
    \/ TxStatements(s, {"maasserver_node"})

SpecTx == Init /\ [][NextTx]_vars

\* Concurrent transactions on nodes, block devices and the filesystems on
\* them.
TxStorageTables == {"maasserver_node", "maasserver_blockdevice",
                    "maasserver_filesystem"}

NextTxStorage == \E s \in Sessions :
    \/ Begin(s)
    \/ Commit(s)
    \/ Rollback(s)
    \/ TxStatements(s, TxStorageTables)

SpecTxStorage == Init /\ [][NextTxStorage]_vars

(***************************************************************************)
(* The views, on a database whose triggers start_up has registered.  Each  *)
(* call runs in its own transaction; last records the call and the views   *)
(* before and after it.                                                    *)
(***************************************************************************)
ViewCall(name, after) ==
    /\ registry' = after
    /\ last' = [table |-> "", event |-> name, old |-> registry.views,
                new |-> after.views]
    /\ UNCHANGED <<regpc, reghist, db, fired, out, err, txvars, actvars>>

RegisterAllViews == ViewCall("register_all_views", register_all_views(registry))

DropAllViews == ViewCall("drop_all_views", drop_all_views(registry))

RegisterView ==
    \E view_name \in DOMAIN ALL_VIEWS :
        ViewCall("register_view", register_view(registry, view_name))

NextViews == RegisterAllViews \/ DropAllViews \/ RegisterView

SpecViews == Init /\ [][NextViews]_vars
(***************************************************************************)
(* Properties.                                                             *)
(***************************************************************************)
OnNode(event) == last.table = "maasserver_node" /\ last.event = event

Channels(seq) == {seq[i].channel : i \in DOMAIN seq}

NodeBinding(event) ==
    CASE event = "insert" -> "maasserver_node_node_create_notify"
      [] event = "update" -> "maasserver_node_node_update_notify"
      [] event = "delete" -> "maasserver_node_node_delete_notify"

DeviceBinding(event) ==
    CASE event = "insert" -> "maasserver_node_device_create_notify"
      [] event = "update" -> "maasserver_node_device_update_notify"
      [] event = "delete" -> "maasserver_node_device_delete_notify"

\* C8: every insert, update or delete of a node row fires exactly one of the
\* node binding and the device binding of that event, and no other trigger.
C8_NodeFiltersPartition ==
    last.table = "maasserver_node" =>
        /\ Len(fired) = 1
        /\ fired[1] \in {NodeBinding(last.event), DeviceBinding(last.event)}
        /\ {NodeBinding(last.event), DeviceBinding(last.event)}
                \subseteq {t.name : t \in registry.trigs}

C8_Witness ==
    /\ OnNode("update")
    /\ last.old.installable # last.new.installable
    /\ fired = <<DeviceBinding("update")>>
\* The register_trigger calls of register_all_triggers, by position.
TriggerCalls ==
    {i \in DOMAIN RegisterAllCalls :
        RegisterAllCalls[i].call = "register_trigger"}

TriggersOn(trigs, table, event) ==
    {t \in trigs : t.table = table /\ t.event = event}

\* C9: no run of register_all_triggers raises, and once the first run has
\* completed the installed procedures and triggers (names, tables, events,
\* filters, bodies) stay what that run left, at every call of every later
\* run: each completed run leaves the registry of the first.
C9_RegistrationIdempotent ==
    /\ ~registry.error
    /\ \A i \in DOMAIN reghist : reghist[i] = reghist[1]
    /\ reghist # <<>> => registry = reghist[1]

C9_Witness ==
    /\ Len(reghist) >= 2
    /\ regpc = Len(RegisterAllCalls)
    /\ Cardinality(registry.trigs) = Cardinality(TriggerCalls)

\* C10 (as amended): after two or more runs of register_all_triggers there is
\* exactly one trigger per binding, that is per (table, procedure) of a
\* register_trigger call, and no other trigger; a (table, event) pair has as
\* many triggers as register_all_triggers binds to it, one or two.
C10_OneTriggerPerBinding ==
    Len(reghist) >= 2 =>
        /\ \A i \in TriggerCalls :
            Cardinality({t \in registry.trigs :
                /\ t.table = RegisterAllCalls[i].table
                /\ t.procedure = RegisterAllCalls[i].procedure
                /\ t.event = RegisterAllCalls[i].event}) = 1
        /\ \A table \in Tables : \A event \in Events :
            /\ Cardinality(TriggersOn(registry.trigs, table, event))
                = Cardinality({i \in TriggerCalls :
                    /\ RegisterAllCalls[i].table = table
                    /\ RegisterAllCalls[i].event = event})
            /\ Cardinality(TriggersOn(registry.trigs, table, event)) <= 2

C10_Witness ==
    /\ Len(reghist) >= 2
    /\ Cardinality(TriggersOn(registry.trigs, "maasserver_node", "insert")) = 2
    /\ Cardinality(TriggersOn(registry.trigs, "maasserver_zone", "insert")) = 1

\* C10 (as claimed): after two runs every (table, event) pair that has a
\* binding has exactly one trigger.
C10_Original ==
    Len(reghist) >= 2 =>
        \A table \in Tables : \A event \in Events :
            TriggersOn(registry.trigs, table, event) # {} =>
                Cardinality(TriggersOn(registry.trigs, table, event)) = 1
\* The number of notifications of the sequence equal to n.
Count(seq, n) == Cardinality({i \in DOMAIN seq : seq[i] = n})

\* The channel of a node row by its installable flag.
NodeChannel(n) == IF n.installable THEN "node_update" ELSE "device_update"

\* The nodes linked to the tag in maasserver_node_tags.
LinkedNodes(tag_id) ==
    {n \in db["maasserver_node"] :
        \E l \in db["maasserver_node_tags"] :
            l.tag_id = tag_id /\ l.node_id = n.id}

OnTagUpdate == last.table = "maasserver_tag" /\ last.event = "update"

\* C5 (as amended): updating a Tag row linked to k nodes emits exactly k + 1
\* notifications: one tag_update with the tag's id and, for each linked
\* node, one with that node's system_id on node_update if the node is
\* installable and on device_update if not.
C5_TagUpdateFanOut ==
    OnTagUpdate =>
        /\ Len(out) = Cardinality(LinkedNodes(last.new.id)) + 1
        /\ Count(out, [channel |-> "tag_update",
                       payload |-> ToString(last.new.id)]) = 1
        /\ \A n \in LinkedNodes(last.new.id) :
            Count(out, [channel |-> NodeChannel(n),
                        payload |-> n.system_id]) = 1

C5_Witness ==
    /\ OnTagUpdate
    /\ \E n1, n2 \in LinkedNodes(last.new.id) :
        n1.installable /\ ~n2.installable
    /\ Len(out) = 3

\* C5 (as claimed): the update emits exactly k notifications in total, one
\* per linked node.
C5_Original ==
    OnTagUpdate =>
        /\ Len(out) = Cardinality(LinkedNodes(last.new.id))
        /\ \A n \in LinkedNodes(last.new.id) :
            Count(out, [channel |-> NodeChannel(n),
                        payload |-> n.system_id]) = 1

(***************************************************************************)
(* The owning node of a row, as the storage hierarchy and the MAC address  *)
(* relations define it, in the tables as the statement left them.          *)
(***************************************************************************)
\* The row image the statement's triggers are given: OLD on delete, NEW on
\* insert and update.
Image == IF last.event = "delete" THEN last.old ELSE last.new

OwnersOfBlockDevice(id) ==
    {n \in db["maasserver_node"] :
        \E b \in db["maasserver_blockdevice"] :
            b.id = id /\ b.node_id = n.id}

OwnersOfPartitionTable(id) ==
    UNION {OwnersOfBlockDevice(pt.block_device_id) :
        pt \in {q \in db["maasserver_partitiontable"] : q.id = id}}

OwnersOfPartition(id) ==
    UNION {OwnersOfPartitionTable(pa.partition_table_id) :
        pa \in {q \in db["maasserver_partition"] : q.id = id}}

OwnersOfMac(macs) ==
    {n \in db["maasserver_node"] : \E m \in macs : m.node_id = n.id}

Owners(table, row) ==
    CASE table = "maasserver_node" -> {row}
      [] table = "maasserver_blockdevice" ->
            {n \in db["maasserver_node"] : n.id = row.node_id}
      [] table = "maasserver_partitiontable" ->
            OwnersOfBlockDevice(row.block_device_id)
      [] table = "maasserver_partition" ->
            OwnersOfPartitionTable(row.partition_table_id)
      [] table = "maasserver_filesystem" ->
            OwnersOfBlockDevice(row.block_device_id)
                \cup OwnersOfPartition(row.partition_id)
      [] table = "maasserver_filesystemgroup" ->
            UNION {OwnersOfPartition(f.partition_id) :
                f \in {g \in db["maasserver_filesystem"] :
                    g.filesystem_group_id = row.id}}
      [] table = "maasserver_cacheset" ->
            UNION {OwnersOfPartition(f.partition_id) :
                f \in {g \in db["maasserver_filesystem"] :
                    g.cache_set_id = row.id}}
      [] table = "maasserver_macaddress" ->
            {n \in db["maasserver_node"] : n.id = row.node_id}
      [] table = "maasserver_macstaticipaddresslink" ->
            OwnersOfMac({m \in db["maasserver_macaddress"] :
                            m.id = row.mac_address_id})
      [] table = "maasserver_dhcplease" ->
            OwnersOfMac({m \in db["maasserver_macaddress"] :
                            m.mac_address = row.mac})
      [] OTHER -> {}

Layers == {"maasserver_partitiontable", "maasserver_partition",
           "maasserver_filesystem", "maasserver_filesystemgroup",
           "maasserver_cacheset"}

OnLayer == last.table \in Layers

OnFilesystem == last.table = "maasserver_filesystem"

\* C6 (as claimed): mutating a Filesystem row with only block_device_id set,
\* on a block device of node N, or with only partition_id set, on a
\* partition whose partition table's block device belongs to node N, emits
\* exactly one notification: node_update with N's system_id.
C6_FilesystemOnePath ==
    OnFilesystem =>
        LET viaDevice == IF Image.partition_id = NULL
                         THEN OwnersOfBlockDevice(Image.block_device_id)
                         ELSE {}
            viaPartition == IF Image.block_device_id = NULL
                            THEN OwnersOfPartition(Image.partition_id)
                            ELSE {}
        IN  \A n \in viaDevice \cup viaPartition :
                out = <<[channel |-> "node_update", payload |-> n.system_id]>>

\* C3 (as claimed): a mutation of one row of a tracked table emits exactly
\* one notification for the row's owning node, never none and never more
\* than one.  Stated for the node table and the storage tables.
C3_OnePerOwner ==
    last.table \in StorageTables =>
        \A n \in Owners(last.table, Image) :
            Cardinality({i \in DOMAIN out :
                            out[i].payload = n.system_id}) = 1

OnMac == last.table \in {"maasserver_macaddress", "maasserver_dhcplease",
                         "maasserver_macstaticipaddresslink"}

\* C7 (as claimed): when the lookup of the owning node finds no node, the
\* mutation completes normally and no notification is emitted on any
\* channel.  Stated for the MAC address, DHCP lease and static IP link
\* tables.
C7_NoOwnerNoNotification ==
    (OnMac /\ Owners(last.table, Image) = {}) => ~err /\ out = <<>>

(***************************************************************************)
(* Transactions and delivery.                                              *)
(***************************************************************************)
\* C11: a notification is with the listeners only if the transaction that
\* emitted it has committed: none of an open or aborted transaction, and
\* none, ever, of a transaction that rolled back.
C11_DeliveredOnlyAfterCommit ==
    \A i \in DOMAIN delivered : outcome[delivered[i].tx] = "commit"

C11_Witness ==
    \E s \in Sessions :
        /\ tx[s].id # 0
        /\ outcome[tx[s].id] = "rollback"
        /\ tx[s].pending # <<>>
        /\ delivered # <<>>
        /\ \A i \in DOMAIN delivered : delivered[i].tx # tx[s].id

\* The row image the triggers of the statement are given.
ImageOf(stmt) == IF stmt.event = "delete" THEN stmt.old ELSE stmt.new

\* C12: within one transaction the notifications are queued in the order
\* of the mutations that triggered them (the k-th queued notification is
\* the one of the k-th statement on a node, carrying that node's
\* system_id), and the listeners receive them in that order.
C12_OrderOfMutations ==
    /\ \A s \in Sessions :
        /\ Len(tx[s].pending) = Len(tx[s].stmts)
        /\ \A k \in DOMAIN tx[s].pending :
            /\ tx[s].pending[k].stmt = k
            /\ tx[s].pending[k].payload = ImageOf(tx[s].stmts[k]).system_id
    /\ \A i, j \in DOMAIN delivered :
        (i < j /\ delivered[i].tx = delivered[j].tx) =>
            delivered[i].stmt < delivered[j].stmt

C12_Witness ==
    \E i, j \in DOMAIN delivered :
        /\ i < j
        /\ delivered[i].tx = delivered[j].tx
        /\ delivered[i].stmt = 1
        /\ delivered[j].stmt = 2
        /\ delivered[i].payload # delivered[j].payload

\* C13 (as claimed): under any interleaving of concurrent transactions,
\* every transaction that commits delivers at least one notification for
\* each owning node of the rows it mutated.
C13_CommittedDelivers ==
    \A s \in Sessions :
        (tx[s].id # 0 /\ outcome[tx[s].id] = "commit") =>
            \A k \in DOMAIN tx[s].stmts :
                \A n \in Owners(tx[s].stmts[k].table,
                                ImageOf(tx[s].stmts[k])) :
                    \E i \in DOMAIN delivered :
                        /\ delivered[i].tx = tx[s].id
                        /\ delivered[i].payload = n.system_id

\* C14: when pg_notify fails in a trigger the error ends the statement and
\* aborts the transaction: a transaction that lost a notification is never
\* open for further statements and never commits, so none of its row
\* mutations is committed.
C14_PublishFailureAborts ==
    \A s \in Sessions :
        tx[s].dropped =>
            /\ outcome[tx[s].id] \in {"aborted", "rollback"}
            /\ \A i \in DOMAIN delivered : delivered[i].tx # tx[s].id

C14_Witness ==
    \E s \in Sessions :
        /\ tx[s].dropped
        /\ outcome[tx[s].id] = "rollback"
        /\ tx[s].writes # <<>>
        /\ tx[s].writes[1].new # NoRow
        /\ tx[s].writes[1].new \notin db[tx[s].writes[1].table]

(***************************************************************************)
(* Registration failure and teardown.                                      *)
(***************************************************************************)
\* C15: when a call of register_all_triggers fails part-way, the call has
\* raised and the installed procedures and triggers are exactly those
\* installed before the call; a partly registered set is never left.
C15_FailedRegistrationRollsBack ==
    registry.error =>
        /\ registry.procs = Committed.procs
        /\ registry.trigs = Committed.trigs

C15_Witness ==
    /\ registry.error
    /\ regpc > 1
    /\ regpc < Len(RegisterAllCalls)
    /\ reghist = <<>>
    /\ registry.trigs = {}
    /\ DOMAIN registry.procs = {}

\* What register_all_triggers installs in an empty database.
Installed == register_all_triggers(EmptyRegistry)

AfterDropAllViews == last.event = "drop_all_views"

\* C16 (as amended): after drop_all_views returns none of the views of
\* _ALL_VIEWS remains; the procedures and triggers that
\* register_all_triggers installed are all still in place.
C16_DropAllViewsLeavesNoView ==
    AfterDropAllViews =>
        /\ DOMAIN registry.views = {}
        /\ registry.procs = Installed.procs
        /\ registry.trigs = Installed.trigs

C16_Witness ==
    /\ AfterDropAllViews
    /\ DOMAIN last.old = DOMAIN ALL_VIEWS
    /\ DOMAIN registry.views = {}
    /\ DOMAIN registry.procs # {}

\* C16 (as claimed): after drop_all_views returns no installed view and no
\* installed procedure remains.
C16_Original ==
    AfterDropAllViews =>
        /\ DOMAIN registry.views = {}
        /\ DOMAIN registry.procs = {}

(***************************************************************************)
(* The row images the bindings read.                                       *)
(***************************************************************************)
\* The row images (OLD, NEW) whose columns the procedure text reads.
ImagesRead(procedure) ==
    {ref[1] : ref \in {procedure.arg1, procedure.arg2} \ {NoArg}}

\* The row images a trigger reads: those of its WHEN condition and of the
\* procedure it executes.
TriggerReads(t) ==
    ImagesRead(registry.procs[t.procedure])
        \cup (IF t.filter = NoFilter THEN {} ELSE {t.filter.image})

\* C17: at every point of registration, every trigger on DELETE reads,
\* in its filter and in its procedure, columns of OLD only, and every
\* trigger on INSERT columns of NEW only.
C17_DeleteReadsOldInsertReadsNew ==
    \A t \in registry.trigs :
        /\ t.event = "delete" => TriggerReads(t) = {"OLD"}
        /\ t.event = "insert" => TriggerReads(t) = {"NEW"}

C17_Witness ==
    /\ regpc = Len(RegisterAllCalls)
    /\ \E t \in registry.trigs :
        /\ t.event = "delete"
        /\ t.filter # NoFilter
        /\ TriggerReads(t) = {"OLD"}
    /\ \E t \in registry.trigs :
        /\ t.event = "delete"
        /\ registry.procs[t.procedure].body = "node_related_notification"
    /\ Cardinality({t \in registry.trigs : t.event = "delete"}) >= 20

(***************************************************************************)
(* Payloads, keys and tag links.                                           *)
(***************************************************************************)
NodeChannels == {"node_create", "node_update", "node_delete",
                 "device_create", "device_update", "device_delete"}

\* The nodes that exist, and the node the statement just deleted.
NodesNow ==
    db["maasserver_node"]
        \cup (IF OnNode("delete") THEN {last.old} ELSE {})

\* C18 (as claimed): every emitted notification carries a non-empty
\* identifier; on the node and device channels it is the system_id of an
\* existing or just-deleted node.  Stated for the statements on nodes, MAC
\* addresses, DHCP leases and static IP links, which emit on those channels
\* only.
C18_PayloadIsIdentifier ==
    \A i \in DOMAIN out :
        /\ out[i].payload # ""
        /\ out[i].channel \in NodeChannels
        /\ \E n \in NodesNow : out[i].payload = n.system_id

OnKey == last.table \in {"maasserver_sshkey", "maasserver_sslkey"}

OnTagLink ==
    /\ last.table = "maasserver_node_tags"
    /\ last.event \in {"insert", "delete"}

\* C20: inserting or deleting a row of maasserver_node_tags emits exactly
\* one notification, for the node of NEW.node_id on insert and of
\* OLD.node_id on delete: on node_update if that node is installable and
\* on device_update if not, with the node's system_id as payload.
C20_TagLinkNotifiesNode ==
    OnTagLink =>
        /\ ~err
        /\ \E n \in db["maasserver_node"] :
            /\ n.id = Image.node_id
            /\ out = <<[channel |-> NodeChannel(n),
                        payload |-> n.system_id]>>

C20_Witness ==
    /\ OnTagLink
    /\ last.event = "delete"
    /\ \E n \in db["maasserver_node"] :
        /\ n.id = last.old.node_id
        /\ ~n.installable
        /\ out = <<[channel |-> "device_update", payload |-> n.system_id]>>

(***************************************************************************)
(* A filesystem whose two paths lead to two nodes.  The database holds two *)
(* nodes, a block device of each, and a partition on the second node's     *)
(* block device; the statements are on the filesystem table and on the     *)
(* tables a filesystem refers to.                                          *)
(***************************************************************************)
TwoPathsDb(a, b) ==
    [EmptyTables EXCEPT
        !["maasserver_node"] =
            {[id |-> 1, system_id |-> SystemIds[1], installable |-> a],
             [id |-> 2, system_id |-> SystemIds[2], installable |-> b]},
        !["maasserver_blockdevice"] =
            {[id |-> 1, node_id |-> 1], [id |-> 2, node_id |-> 2]},
        !["maasserver_partitiontable"] = {[id |-> 1, block_device_id |-> 2]},
        !["maasserver_partition"] = {[id |-> 1, partition_table_id |-> 1]}]

InitTwoPaths ==
    /\ registry = register_all_triggers(EmptyRegistry)
    /\ regpc = Len(RegisterAllCalls)
    /\ reghist = <<>>
    /\ \E a, b \in BOOLEAN : db = TwoPathsDb(a, b)
    /\ last = NoStatement
    /\ fired = <<>>
    /\ out = <<>>
    /\ err = FALSE
    /\ tx = [s \in Sessions |-> NoTx]
    /\ outcome = <<>>
    /\ delivered = <<>>
    /\ node = NoNode
    /\ action = NoAction

TwoPathsTables == {"maasserver_filesystem", "maasserver_filesystemgroup",
                   "maasserver_cacheset"}

NextTwoPaths == \E table \in TwoPathsTables :
    Insert(table) \/ Update(table) \/ Delete(table)

SpecTwoPaths == InitTwoPaths /\ [][NextTwoPaths]_vars

\* The notifications the last statement's triggers can emit on the rows
\* the database holds, over every firing order and every row a SELECT INTO
\* may take.
Outcomes ==
    UNION {RunTriggers(registry, order, Len(order), last.event, last.old,
                       last.new, db) :
        order \in Orderings(Firing(registry, last.table, last.event,
                                   last.old, last.new))}

NodeUpdate(n) == [channel |-> "node_update", payload |-> n.system_id]

\* C21 (as claimed): when the block-device path and the partition path of a
\* mutated Filesystem row resolve to two different nodes, the mutation does
\* not fail and what it emits is a function of the row and of the rows on
\* its paths: the block-device path's node alone, or both nodes.
C21_TwoPathsDeterministic ==
    OnFilesystem =>
        \A a \in OwnersOfBlockDevice(Image.block_device_id) :
            \A b \in OwnersOfPartition(Image.partition_id) \ {a} :
                /\ ~err
                /\ Cardinality(Outcomes) = 1
                /\ out \in {<<NodeUpdate(a)>>,
                            <<NodeUpdate(a), NodeUpdate(b)>>,
                            <<NodeUpdate(b), NodeUpdate(a)>>}

OnGroup == last.table \in {"maasserver_filesystemgroup", "maasserver_cacheset"}

\* The member filesystems of the mutated FilesystemGroup or CacheSet row.
Members ==
    {f \in db["maasserver_filesystem"] :
        IF last.table = "maasserver_filesystemgroup"
        THEN f.filesystem_group_id = Image.id
        ELSE f.cache_set_id = Image.id}

\* C22 (as claimed): a mutation of a FilesystemGroup or CacheSet row emits
\* a notification for every node N that owns the block device a member
\* filesystem sits on, directly (filesystem.block_device_id) or through a
\* partition.
C22_GroupResolvesToNode ==
    OnGroup =>
        \A f \in Members :
            \A n \in OwnersOfBlockDevice(f.block_device_id)
                        \cup OwnersOfPartition(f.partition_id) :
                \E i \in DOMAIN out : out[i].payload = n.system_id

(***************************************************************************)
(* Statements on the node table and on the tables whose rows belong to a   *)
(* node through one lookup.                                                *)
(***************************************************************************)
RelatedTables == {"maasserver_node_tags", "maasserver_event",
                  "maasserver_macstaticipaddresslink",
                  "maasserver_dhcplease", "metadataserver_noderesult",
                  "maasserver_macaddress", "maasserver_blockdevice"}

\* The rows the node-related tables hold.
RelatedRows ==
    Cardinality(db["maasserver_node_tags"])
        + Cardinality(db["maasserver_event"])
        + Cardinality(db["maasserver_macstaticipaddresslink"])
        + Cardinality(db["maasserver_dhcplease"])
        + Cardinality(db["metadataserver_noderesult"])
        + Cardinality(db["maasserver_macaddress"])
        + Cardinality(db["maasserver_blockdevice"])

InsertRelated(table) ==
    /\ table \in RelatedTables => RelatedRows < MaxRelatedRows
    /\ Insert(table)

NextRelated ==
    \E table \in RelatedTables \cup {"maasserver_node", "maasserver_tag"} :
        InsertRelated(table) \/ Update(table) \/ Delete(table)

SpecRelated == Init /\ [][NextRelated]_vars

OnRelated == last.table \in RelatedTables

\* The nodes the row of a node-related table belongs to.
RelatedOwners ==
    IF last.table \in {"maasserver_node_tags", "maasserver_event",
                       "metadataserver_noderesult"}
    THEN {n \in db["maasserver_node"] : n.id = Image.node_id}
    ELSE Owners(last.table, Image)

\* C23: in any sequence of statements, a notification that a mutation of a
\* node-related row (tag link, event, static IP link, DHCP lease, node
\* result, MAC address, block device) emits for a node is on the channel of
\* the installable value the node table holds for that node when the
\* trigger fires, and a mutation that emits on a node or device channel
\* notifies the row's owning node on that channel.
C23_ChannelReadAtMutation ==
    OnRelated =>
        /\ \A i \in DOMAIN out : \A n \in db["maasserver_node"] :
            (out[i].channel \in {"node_update", "device_update"}
                /\ out[i].payload = n.system_id)
            => out[i].channel = NodeChannel(n)
        /\ (\E i \in DOMAIN out :
                out[i].channel \in {"node_update", "device_update"}) =>
            \A n \in RelatedOwners :
                \E i \in DOMAIN out :
                    out[i] = [channel |-> NodeChannel(n),
                              payload |-> n.system_id]

C23_Witness ==
    /\ OnRelated
    /\ last.table = "maasserver_blockdevice"
    /\ last.event = "update"
    /\ db["maasserver_event"] # {}
    /\ \E n \in db["maasserver_node"] :
        /\ n.id = last.new.node_id
        /\ ~n.installable
        /\ out = <<[channel |-> "device_update", payload |-> n.system_id]>>

(***************************************************************************)
(* Statements on the tables routed by the row's own id, on the tables a    *)
(* tag's fan-out reads and on the interfaces of a nodegroup.               *)
(***************************************************************************)
EntityTables == {"maasserver_zone", "maasserver_tag", "maasserver_nodegroup",
                 "auth_user"}

NextEntity ==
    \E table \in EntityTables
                    \cup {"maasserver_node", "maasserver_node_tags",
                          "maasserver_nodegroupinterface"} :
        Insert(table) \/ Update(table) \/ Delete(table)

SpecEntity == Init /\ [][NextEntity]_vars

OnEntity == last.table \in EntityTables

\* The channel of a statement on an entity-agnostic table.
EntityChannel ==
    (CASE last.table = "maasserver_zone" -> "zone"
       [] last.table = "maasserver_tag" -> "tag"
       [] last.table = "maasserver_nodegroup" -> "nodegroup"
       [] last.table = "auth_user" -> "user")
    \o (CASE last.event = "insert" -> "_create"
          [] last.event = "update" -> "_update"
          [] last.event = "delete" -> "_delete")

\* The notification routed from the row itself.
Direct == [channel |-> EntityChannel, payload |-> ToString(Image.id)]

\* C24: insert, update and delete of a Zone, Tag, NodeGroup or User row
\* each emit exactly one notification routed from the row, on the table's
\* create, update or delete channel with the row's own id as payload
\* (NEW.id for insert and update, OLD.id for delete), by a procedure that
\* reads no table; the only other notifications are those of a Tag update
\* for the nodes linked to the tag.
C24_EntityRoutedById ==
    OnEntity =>
        /\ ~err
        /\ Count(out, Direct) = 1
        /\ \E t \in registry.trigs :
            /\ t.table = last.table
            /\ t.event = last.event
            /\ registry.procs[t.procedure].body = "notification"
            /\ registry.procs[t.procedure].channel = EntityChannel
            /\ registry.procs[t.procedure].arg1 =
                <<IF last.event = "delete" THEN "OLD" ELSE "NEW", "id">>
        /\ \A i \in DOMAIN out :
            out[i] # Direct =>
                /\ OnTagUpdate
                /\ \E n \in LinkedNodes(last.new.id) :
                    out[i] = [channel |-> NodeChannel(n),
                              payload |-> n.system_id]
        /\ ~OnTagUpdate => Len(out) = 1

C24_Witness ==
    /\ OnTagUpdate
    /\ Len(out) = 2
    /\ Count(out, Direct) = 1
    /\ db["auth_user"] # {}
    /\ \E n \in LinkedNodes(last.new.id) :
        Count(out, [channel |-> NodeChannel(n), payload |-> n.system_id]) = 1

OnMacUpdate == last.table = "maasserver_macaddress" /\ last.event = "update"

\* The notification for the node with the id, on its installable channel.
ForNode(id) ==
    {[channel |-> NodeChannel(n), payload |-> n.system_id] :
        n \in {m \in db["maasserver_node"] : m.id = id}}

\* C27: updating a MAC address row so that it moves from node A to a
\* different node B emits one notification for A and then one for B, each
\* on the channel of that node's installable flag; an update that leaves
\* node_id unchanged emits exactly one notification, for that node.
C27_MacMoveNotifiesBoth ==
    (OnMacUpdate /\ last.old.node_id # NULL /\ last.new.node_id # NULL) =>
        /\ ~err
        /\ \E a \in ForNode(last.old.node_id) :
            \E b \in ForNode(last.new.node_id) :
                out = IF last.old.node_id = last.new.node_id
                      THEN <<b>> ELSE <<a, b>>

C27_Witness ==
    /\ OnMacUpdate
    /\ last.old.node_id = 1
    /\ last.new.node_id = 2
    /\ \E a, b \in db["maasserver_node"] :
        /\ a.id = 1 /\ a.installable
        /\ b.id = 2 /\ ~b.installable
        /\ out = <<[channel |-> "node_update", payload |-> a.system_id],
                   [channel |-> "device_update", payload |-> b.system_id]>>

OnLease ==
    /\ last.table = "maasserver_dhcplease"
    /\ last.event \in {"insert", "delete"}

\* C28 (as claimed): inserting or deleting a DHCP lease emits a
\* notification only when the lease's MAC equals the mac_address of an
\* existing MAC address row, and then one notification for that MAC's node
\* on the channel of its installable flag; a lease whose MAC matches no MAC
\* address row emits nothing.
C28_LeaseNotifiesOnMatch ==
    OnLease =>
        LET matching == {m \in db["maasserver_macaddress"] :
                            m.mac_address = Image.mac}
        IN  /\ matching = {} => out = <<>>
            /\ \A m \in matching : \A n \in db["maasserver_node"] :
                n.id = m.node_id =>
                    out = <<[channel |-> NodeChannel(n),
                             payload |-> n.system_id]>>

OnEvent == last.table = "maasserver_event"

\* C29: inserting an event emits exactly two notifications: event_create
\* with the event's id, and one for the event's node on node_update or
\* device_update according to the node's installable flag; updating or
\* deleting an event emits only event_update or event_delete with the
\* event's id and nothing on a node or device channel.
C29_EventInsertNotifiesNode ==
    OnEvent =>
        /\ ~err
        /\ last.event = "insert" =>
            /\ Len(out) = 2
            /\ Count(out, [channel |-> "event_create",
                           payload |-> ToString(last.new.id)]) = 1
            /\ \E n \in ForNode(last.new.node_id) : Count(out, n) = 1
        /\ last.event = "update" =>
            out = <<[channel |-> "event_update",
                     payload |-> ToString(last.new.id)]>>
        /\ last.event = "delete" =>
            out = <<[channel |-> "event_delete",
                     payload |-> ToString(last.old.id)]>>

C29_Witness ==
    /\ OnEvent
    /\ last.event = "insert"
    /\ last.new.node_id = 2
    /\ Len(out) = 2
    /\ \E i \in DOMAIN out : out[i].channel = "event_create"
    /\ \E i \in DOMAIN out :
        out[i] = [channel |-> "device_update", payload |-> SystemIds[2]]

OnNodeGroupInterface == last.table = "maasserver_nodegroupinterface"

\* C30: inserting, updating or deleting a NodeGroupInterface row emits
\* exactly one notification, always on nodegroup_update (never
\* nodegroup_create or nodegroup_delete), whose payload is the parent
\* nodegroup's id: NEW.nodegroup_id for insert and update, OLD.nodegroup_id
\* for delete.
C30_InterfaceNotifiesNodeGroup ==
    OnNodeGroupInterface =>
        /\ ~err
        /\ out = <<[channel |-> "nodegroup_update",
                    payload |-> ToString(Image.nodegroup_id)]>>

C30_Witness ==
    /\ OnNodeGroupInterface
    /\ last.event = "update"
    /\ last.old.nodegroup_id = 1
    /\ last.new.nodegroup_id = 2
    /\ out = <<[channel |-> "nodegroup_update", payload |-> "2"]>>

(***************************************************************************)
(* Node actions (maasserver.node_action), as the tests of                  *)
(* maasserver/tests/test_node_action.py set them up and observe them: a    *)
(* node made in some status with some owner, an action executed on it by a *)
(* user, and node.start or node.stop succeeding or raising.                *)
(***************************************************************************)
NODE_STATUS ==
    {"NEW", "COMMISSIONING", "FAILED_COMMISSIONING", "READY", "ALLOCATED",
     "DEPLOYING", "DEPLOYED", "FAILED_DEPLOYMENT", "RELEASING",
     "DISK_ERASING", "FAILED_DISK_ERASING", "BROKEN"}

Users == {"admin", "user"}

NoOwner == ""

\* RPC_EXCEPTIONS + (ExternalProcessError,): the classes the tests name.
Exceptions == {"MultipleFailures", "ExternalProcessError"}

StaticIPAddressExhaustion == "StaticIPAddressExhaustion"

ACTION_CLASSES ==
    {"Commission", "Abort", "Acquire", "Deploy", "Start", "Stop", "Release",
     "MarkBroken", "MarkFixed"}

\* The statuses an action is executed from.
actionable_statuses(name) ==
    CASE name = "Commission" -> {"NEW", "FAILED_COMMISSIONING", "READY"}
      [] name = "Abort" -> {"DISK_ERASING", "COMMISSIONING"}
      [] name = "Acquire" -> {"READY"}
      [] name = "Deploy" -> {"ALLOCATED", "READY"}
      [] name = "Start" -> {"ALLOCATED", "DEPLOYED", "READY"}
      [] name = "Stop" -> {"DEPLOYED", "READY", "FAILED_COMMISSIONING",
                           "FAILED_DEPLOYMENT", "FAILED_DISK_ERASING"}
      [] name = "Release" -> {"ALLOCATED", "DEPLOYING", "FAILED_DEPLOYMENT",
                              "FAILED_DISK_ERASING"}
      [] name = "MarkBroken" -> {"COMMISSIONING"}
      [] name = "MarkFixed" -> {"BROKEN"}

\* compile_node_actions(node, user, classes): the names of the classes
\* whose actionable_statuses hold the node's status.
compile_node_actions(n, user, classes) ==
    {name \in classes : n.status \in actionable_statuses(name)}

\* The node after the action's execute() where nothing raised.
Executed(name, user, n) ==
    CASE name = "Commission" -> [n EXCEPT !.status = "COMMISSIONING"]
      [] name = "Abort" ->
            [n EXCEPT !.status = IF n.status = "DISK_ERASING"
                                 THEN "FAILED_DISK_ERASING" ELSE "NEW"]
      [] name = "Acquire" -> [status |-> "ALLOCATED", owner |-> user]
      [] name = "Deploy" ->
            IF n.status = "READY"
            THEN [status |-> "ALLOCATED", owner |-> user] ELSE n
      [] name = "Release" -> [n EXCEPT !.status = "RELEASING"]
      [] name = "MarkBroken" -> [n EXCEPT !.status = "BROKEN"]
      [] name = "MarkFixed" -> [n EXCEPT !.status = "READY"]
      [] OTHER -> n

\* What the call of node.start (Commission, Deploy, Start) or node.stop
\* (Abort, Stop, Release) of the action may raise.
Failures(name) ==
    IF name = "Deploy" THEN Exceptions \cup {StaticIPAddressExhaustion}
    ELSE IF name \in {"Commission", "Start", "Abort", "Stop", "Release"}
    THEN Exceptions
    ELSE {}

Hostname == "node"

\* get_error_message_for_exception(exception).
get_error_message_for_exception(exception) == "message of " \o exception

\* Mutant: the error is raised without its message.
NodeActionError_Bare(message) == [raised |-> "NodeActionError", error |-> ""]

\* raise NodeActionError(message).
NodeActionError(message) == [raised |-> "NodeActionError", error |-> message]

\* The error execute() raises when the power call failed.
Raises(failure) ==
    IF failure = StaticIPAddressExhaustion
    THEN NodeActionError(Hostname
            \o ": Failed to start, static IP addresses are exhausted.")
    ELSE NodeActionError(get_error_message_for_exception(failure))

\* Mutant: Abort leaves every node NEW.
execute_AbortToNew(name, user, failure) ==
    /\ node.status \in actionable_statuses(name)
    /\ failure = ""
    /\ node' = IF name = "Abort" THEN [node EXCEPT !.status = "NEW"]
               ELSE Executed(name, user, node)
    /\ action' = [name |-> name, user |-> user, from |-> node.status,
                  failure |-> "", raised |-> "", error |-> ""]
    /\ UNCHANGED <<regvars, db, last, fired, out, err, txvars>>

\* action.execute() by the user.  A failed Deploy has acquired the node
\* when it was READY and leaves the status at that; what another failed
\* action leaves of the status is not observed by any test: either.
execute(name, user, failure) ==
    /\ node.status \in actionable_statuses(name)
    /\ IF failure = ""
       THEN /\ node' = Executed(name, user, node)
            /\ action' = [name |-> name, user |-> user, from |-> node.status,
                          failure |-> "", raised |-> "", error |-> ""]
       ELSE /\ failure \in Failures(name)
            /\ node' \in IF name = "Deploy"
                         THEN {Executed(name, user, node)}
                         ELSE {node, Executed(name, user, node)}
            /\ action' = [name |-> name, user |-> user, from |-> node.status,
                          failure |-> failure,
                          raised |-> Raises(failure).raised,
                          error |-> Raises(failure).error]
    /\ UNCHANGED <<regvars, db, last, fired, out, err, txvars>>

InitAction ==
    /\ registry = register_all_triggers(EmptyRegistry)
    /\ regpc = Len(RegisterAllCalls)
    /\ reghist = <<>>
    /\ db = EmptyTables
    /\ last = NoStatement
    /\ fired = <<>>
    /\ out = <<>>
    /\ err = FALSE
    /\ tx = [s \in Sessions |-> NoTx]
    /\ outcome = <<>>
    /\ delivered = <<>>
    /\ node \in [status : NODE_STATUS, owner : Users \cup {NoOwner}]
    /\ action = NoAction

NextAction ==
    \E name \in ACTION_CLASSES, user \in Users :
        \E failure \in {""} \cup Exceptions \cup {StaticIPAddressExhaustion} :
            execute(name, user, failure)

SpecAction == InitAction /\ [][NextAction]_vars

BlockDeviceTables == {"maasserver_node", "maasserver_blockdevice",
                      "maasserver_physicalblockdevice",
                      "maasserver_virtualblockdevice"}

NextBlockDevice == \E table \in BlockDeviceTables :
    Insert(table) \/ Update(table) \/ Delete(table)

SpecBlockDevice == Init /\ [][NextBlockDevice]_vars

OnBlockDevice == last.table = "maasserver_blockdevice"

OnBlockDeviceChild ==
    /\ last.table \in {"maasserver_physicalblockdevice",
                       "maasserver_virtualblockdevice"}
    /\ last.event = "update"

\* C31: inserting, updating or deleting a block device row emits exactly
\* one notification, for the node of node_id (NEW.node_id for insert and
\* update, OLD.node_id for delete) on that node's installable channel, so
\* an update that moves a block device from node A to node B notifies B
\* only; updating a physical or virtual block device row emits one
\* notification for the node owning the parent block device
\* (blockdevice_ptr_id).
C31_BlockDeviceNotifiesNode ==
    /\ OnBlockDevice =>
        /\ ~err
        /\ \E n \in ForNode(Image.node_id) : out = <<n>>
    /\ OnBlockDeviceChild =>
        /\ ~err
        /\ \E b \in db["maasserver_blockdevice"] :
            /\ b.id = last.new.blockdevice_ptr_id
            /\ \E n \in ForNode(b.node_id) : out = <<n>>

C31_Witness ==
    /\ OnBlockDevice
    /\ last.event = "update"
    /\ last.old.node_id = 1
    /\ last.new.node_id = 2
    /\ db["maasserver_physicalblockdevice"] # {}
    /\ \E a \in db["maasserver_node"] : a.id = 1 /\ a.installable
    /\ out = <<[channel |-> "device_update", payload |-> SystemIds[2]]>>

\* C32: drop_all_views removes exactly the views register_all_views
\* creates, the keys of _ALL_VIEWS: after it none of them exists and
\* nothing else was removed; it succeeds when some or all of the views are
\* already absent; and register_all_views called twice leaves the views it
\* leaves when called once.
C32_DropUndoesRegister ==
    /\ last.event = "drop_all_views" =>
        /\ ~registry.error
        /\ DOMAIN last.new \cap DOMAIN ALL_VIEWS = {}
        /\ DOMAIN last.old \ DOMAIN last.new \subseteq DOMAIN ALL_VIEWS
        /\ drop_all_views(register_all_views(registry)).views = last.new
    /\ last.event = "register_all_views" =>
        /\ ~registry.error
        /\ DOMAIN last.new = DOMAIN last.old \cup DOMAIN ALL_VIEWS
        /\ register_all_views(registry).views = last.new

C32_Witness ==
    /\ last.event = "drop_all_views"
    /\ DOMAIN last.old # {}
    /\ DOMAIN last.old # DOMAIN ALL_VIEWS
    /\ DOMAIN last.new = {}
    /\ ~registry.error

OnGuarded == last.table \in {"maasserver_filesystem",
                             "maasserver_filesystemgroup",
                             "maasserver_cacheset"}

\* The nodes the query of the mutated row's procedure selects from, in the
\* tables as the statement left them.
JoinFinds ==
    CASE last.table = "maasserver_filesystem" ->
            {n \in db["maasserver_node"] :
                \E b \in db["maasserver_blockdevice"],
                   pa \in db["maasserver_partition"],
                   pt \in db["maasserver_partitiontable"] :
                    \/ n.id = b.node_id /\ b.id = Image.block_device_id
                    \/ /\ b.id = pt.block_device_id
                       /\ pt.id = pa.partition_table_id
                       /\ pa.id = Image.partition_id}
      [] last.table = "maasserver_filesystemgroup" ->
            UNION {OwnersOfPartition(f.partition_id) :
                f \in {g \in db["maasserver_filesystem"] :
                    \/ g.filesystem_group_id = Image.id
                    \/ /\ g.cache_set_id = Image.cache_set_id
                       /\ g.cache_set_id # NULL}}
      [] last.table = "maasserver_cacheset" ->
            UNION {OwnersOfPartition(f.partition_id) :
                f \in {g \in db["maasserver_filesystem"] :
                    g.cache_set_id = Image.id}}

\* What the statement wrote is in the table.
Proceeded ==
    /\ last.event # "delete" => last.new \in db[last.table]
    /\ last.event # "insert" => last.old = last.new
                                    \/ last.old \notin db[last.table]

\* C33: for a Filesystem, FilesystemGroup or CacheSet mutation whose join
\* finds no row, the guard prevents any emission: nothing is emitted, no
\* error is raised and the mutation proceeds.
C33_EmptyJoinEmitsNothing ==
    (OnGuarded /\ JoinFinds = {}) => out = <<>> /\ ~err /\ Proceeded

C33_Witness ==
    /\ OnGuarded
    /\ last.table # "maasserver_filesystem"
    /\ db["maasserver_node"] # {}
    /\ JoinFinds = {}
    /\ out = <<>> /\ ~err /\ Proceeded


\* The database cut down to the rows on the join paths of the mutated
\* Filesystem row: its block device, its partition, that partition's table
\* and block device, and the nodes owning those block devices.
OwnPaths ==
    LET pas == {pa \in db["maasserver_partition"] :
                    pa.id = Image.partition_id}
        pts == {pt \in db["maasserver_partitiontable"] :
                    \E pa \in pas : pt.id = pa.partition_table_id}
        bds == {b \in db["maasserver_blockdevice"] :
                    \/ b.id = Image.block_device_id
                    \/ \E pt \in pts : b.id = pt.block_device_id}
        nds == {n \in db["maasserver_node"] :
                    \E b \in bds : n.id = b.node_id}
    IN  [db EXCEPT !["maasserver_node"] = nds,
                   !["maasserver_blockdevice"] = bds,
                   !["maasserver_partitiontable"] = pts,
                   !["maasserver_partition"] = pas]

\* What the last statement's triggers can emit when they read tables T.
OutcomesOn(T) ==
    UNION {RunTriggers(registry, order, Len(order), last.event, last.old,
                       last.new, T) :
        order \in Orderings(Firing(registry, last.table, last.event,
                                   last.old, last.new))}

\* C34 (as claimed): what a Filesystem mutation emits depends only on the
\* mutated row and the rows on its own join paths: it is what the triggers
\* emit on a database holding those rows alone, whatever unrelated nodes,
\* block devices, partition tables and partitions there are.
C34_OwnPathsDecide ==
    OnFilesystem => OutcomesOn(db) = OutcomesOn(OwnPaths)


\* C35 (as claimed): updating a MAC address row from node A to no node, or
\* from no node to node B, notifies every node the MAC was attached to
\* before or after the update, and emits no notification for a
\* non-existent node.
C35_MacDetachNotifiesNode ==
    (OnMacUpdate /\ (last.old.node_id = NULL) # (last.new.node_id = NULL)) =>
        LET attached == {n \in db["maasserver_node"] :
                            n.id \in {last.old.node_id, last.new.node_id}}
        IN  /\ ~err
            /\ \A n \in attached :
                \E i \in DOMAIN out : out[i].payload = n.system_id
            /\ \A i \in DOMAIN out :
                \E n \in attached : out[i].payload = n.system_id


\* C36: an update of a node row that changes installable emits exactly one
\* notification, on the channel of the post-update value (device_update
\* for true to false, node_update for false to true), with NEW.system_id
\* as payload, and nothing on the channel of the pre-update value.
C36_InstallableFlipNotifiesNew ==
    (OnNode("update") /\ last.old.installable # last.new.installable) =>
        /\ ~err
        /\ out = <<[channel |-> NodeChannel(last.new),
                    payload |-> last.new.system_id]>>
        /\ NodeChannel(last.old) \notin Channels(out)

C36_Witness ==
    /\ OnNode("update")
    /\ last.old.installable /\ ~last.new.installable
    /\ out = <<[channel |-> "device_update",
                payload |-> last.new.system_id]>>
    /\ last.new \in db["maasserver_node"]


\* The rows of a table once the statement has written its row.
Written(rows, stmt) ==
    CASE stmt.event = "insert" -> rows \cup {stmt.new}
      [] stmt.event = "update" -> (rows \ {stmt.old}) \cup {stmt.new}
      [] stmt.event = "delete" -> rows \ {stmt.old}

\* C37: notification triggers only observe: a statement whose triggers
\* have run leaves in every table exactly what the statement itself wrote:
\* the mutated row as written in its table, every other row of every table
\* as it was.
C37_TriggersOnlyObserve ==
    [][~err' =>
        \A t \in Tables :
            db'[t] = IF t = last'.table THEN Written(db[t], last')
                     ELSE db[t]]_vars

C37_Witness ==
    /\ last.event = "delete"
    /\ last.table \in RelatedTables
    /\ fired # <<>>
    /\ out # <<>>
    /\ ~err
    /\ last.old \notin db[last.table]
    /\ db["maasserver_node"] # {}


\* The positions of the calls of a kind among the first k calls of
\* register_all_triggers.
CallsMade(kind, k) ==
    {i \in 1..k : RegisterAllCalls[i].call = kind}

TriggerName(c) == c.table \o "_" \o c.procedure

\* C38: throughout register_all_triggers, every trigger is created only
\* after the procedure it executes has been registered, and all trigger
\* names (table_procedure) and all procedure names are pairwise distinct:
\* no call of a run overwrites what an earlier call of it installed, and no
\* trigger references a missing procedure.
C38_RegistrationOrdered ==
    LET k == IF reghist = <<>> /\ regpc = Len(RegisterAllCalls)
             THEN 0 ELSE regpc
        procedures == CallsMade("register_procedure", k)
        triggers == CallsMade("register_trigger", k)
    IN  /\ ~registry.error
        /\ \A t \in registry.trigs : t.procedure \in DOMAIN registry.procs
        /\ \A i \in triggers : \E j \in procedures :
            j < i /\ RegisterAllCalls[j].procedure.name
                        = RegisterAllCalls[i].procedure
        /\ \A i, j \in triggers :
            i # j => TriggerName(RegisterAllCalls[i])
                        # TriggerName(RegisterAllCalls[j])
        /\ \A i, j \in procedures :
            i # j => RegisterAllCalls[i].procedure.name
                        # RegisterAllCalls[j].procedure.name
        /\ reghist = <<>> =>
            /\ Cardinality(registry.trigs) = Cardinality(triggers)
            /\ Cardinality(DOMAIN registry.procs) = Cardinality(procedures)
            /\ {t.name : t \in registry.trigs}
                = {TriggerName(RegisterAllCalls[i]) : i \in triggers}

C38_Witness ==
    /\ Len(reghist) = 1
    /\ regpc = Len(RegisterAllCalls)
    /\ ~registry.error
    /\ Cardinality(registry.trigs)
        = Cardinality(CallsMade("register_trigger", regpc))
    /\ Cardinality(DOMAIN registry.procs)
        = Cardinality(CallsMade("register_procedure", regpc))
    /\ Cardinality(registry.trigs) > 1

====
